---- MODULE Spec2Model ----
(***************************************************************************)
(* A model of the unified integration gateway (paulpham157/pica):          *)
(*   - the TTL cache layer of cache/src/local.rs (SpecFilter, SpecFn),     *)
(*   - dependency resolution of a unified dispatch,                        *)
(*     UnifiedDestination::get_dependencies (SpecDeps),                    *)
(*   - UnifiedDestination::perform_unified_request from the mapping of     *)
(*     the request on, and build_unified_response (SpecUnified),           *)
(*   - the error taxonomy of osentities/src/domain/error (SpecError),      *)
(*   - prepare_crud_mapping (SpecCrud),                                    *)
(*   - dispatches through the caches: dispatch_destination_request and     *)
(*     the dependencies and the secret of a unified dispatch (SpecRoute),  *)
(*   - create_connection of api/src/logic/connection.rs (SpecConn),        *)
(*   - CallerClient::make_request of unified/src/client.rs (SpecClient).   *)
(* Every specification shares the variables below; the variables a         *)
(* specification does not use stay at their initial value.                 *)
(***************************************************************************)
EXTENDS Naturals, Integers, Sequences, FiniteSets, TLC

VARIABLES cache, calls, lost, store, deps, req, err, crud, route, conn,
          client

vars == <<cache, calls, lost, store, deps, req, err, crud, route, conn, client>>

----------------------------------------------------------------------------
(* Bounds of the model.                                                    *)

\* number of concurrent get_or_insert_* calls SpecFilter and SpecFn follow
MaxCalls == 2
\* time_to_live of a cache entry, in clock ticks
TTL == 2
\* max_capacity of every cache
CacheSize == 1
\* number of dispatches SpecDeps follows through get_dependencies
MaxRounds == 2
\* number of set_meta calls SpecError follows on one error
MaxMetas == 2
\* length, in atoms, of the passthroughForward and x-pica-passthrough-headers
\* values SpecCrud draws
MaxLen == 3
\* number of CMDs the store holds for the platform and method of a
\* passthrough dispatch
MaxCmds == 2
\* length, in atoms, of the text of an identity create_connection is given
MaxIdLen == 2

Keys == {"k1", "k2"}
Values == {"v1", "v2"}
None == "none"

----------------------------------------------------------------------------
(* Errors: osentities/src/domain/error/mod.rs.                             *)

\* A String the error module inspects is a sequence of characters; an
\* Option<String> is NoSubtype or SomeSubtype(chars).
NoSubtype == [some |-> FALSE, s |-> <<>>]
SomeSubtype(chars) == [some |-> TRUE, s |-> chars]

UpperChars == <<"A", "B", "C", "D", "E", "F", "G", "H", "I", "J", "K", "L", "M", "N", "O", "P", "Q", "R", "S", "T", "U", "V", "W", "X", "Y", "Z">>
LowerChars == <<"a", "b", "c", "d", "e", "f", "g", "h", "i", "j", "k", "l", "m", "n", "o", "p", "q", "r", "s", "t", "u", "v", "w", "x", "y", "z">>

IsUpper(c) == \E i \in DOMAIN UpperChars : UpperChars[i] = c
IsLower(c) == \E i \in DOMAIN LowerChars : LowerChars[i] = c
to_lowercase(c) ==
    IF IsUpper(c)
    THEN LowerChars[CHOOSE i \in DOMAIN UpperChars : UpperChars[i] = c]
    ELSE c

\* StringExt::snake_case: words are split at characters that are not letters
\* and where a capital follows a small letter or starts a word after an
\* acronym; the words are put in lower case and joined by "_".
RECURSIVE snake_from(_, _, _)
snake_from(chars, i, acc) ==
    IF i > Len(chars)
    THEN IF acc # <<>> /\ acc[Len(acc)] = "_" THEN SubSeq(acc, 1, Len(acc) - 1)
         ELSE acc
    ELSE LET c == chars[i]
             open == acc # <<>> /\ acc[Len(acc)] # "_"
             boundary ==
                 /\ i > 1
                 /\ \/ IsLower(chars[i - 1])
                    \/ /\ IsUpper(chars[i - 1])
                       /\ i < Len(chars) /\ IsLower(chars[i + 1])
         IN  IF ~IsUpper(c) /\ ~IsLower(c)
             THEN snake_from(chars, i + 1, IF open THEN Append(acc, "_") ELSE acc)
             ELSE IF IsUpper(c) /\ boundary /\ open
             THEN snake_from(chars, i + 1, acc \o <<"_", to_lowercase(c)>>)
             ELSE snake_from(chars, i + 1, Append(acc, to_lowercase(c)))

snake_case(chars) == snake_from(chars, 1, <<>>)

\* PicaError::Internal(..) / PicaError::Application(..): the variant (kind)
\* and its three fields.
PicaError(tier, kind, message, subtype, meta) ==
    [tier |-> tier, kind |-> kind, message |-> message, subtype |-> subtype,
     meta |-> meta]

NoError == PicaError("none", "none", "none", NoSubtype, None)

\* The constructors InternalError::unknown .. invalid_argument and
\* ApplicationError::bad_request .. unprocessable_entity.
new_error(tier, kind, message, subtype) ==
    PicaError(tier, kind, message,
              IF subtype.some THEN SomeSubtype(snake_case(subtype.s))
              ELSE NoSubtype,
              None)

\* A constructor called with subtype None.
InternalError(kind, message) == new_error("Internal", kind, message, NoSubtype)

ApplicationError(kind, message) ==
    new_error("Application", kind, message, NoSubtype)

InternalKinds ==
    {"UnknownError", "UniqueFieldViolation", "Timeout", "ConnectionError",
     "KeyNotFound", "InvalidArgument", "IOErr", "EncryptionError",
     "DecryptionError", "ConfigurationError", "ScriptError",
     "SerializeError", "DeserializeError"}

ApplicationKinds ==
    {"BadRequest", "Conflict", "Forbidden", "InternalServerError",
     "MethodNotAllowed", "NotFound", "NotImplemented", "FailedDependency",
     "ServiceUnavailable", "TooManyRequests", "Unauthorized",
     "UnprocessableEntity"}

\* The names of the variants, as written in the enums.
KindName ==
    [UnknownError |-> <<"U", "n", "k", "n", "o", "w", "n", "E", "r", "r", "o", "r">>,
     UniqueFieldViolation |-> <<"U", "n", "i", "q", "u", "e", "F", "i", "e", "l", "d", "V", "i", "o", "l", "a", "t", "i", "o", "n">>,
     Timeout |-> <<"T", "i", "m", "e", "o", "u", "t">>,
     ConnectionError |-> <<"C", "o", "n", "n", "e", "c", "t", "i", "o", "n", "E", "r", "r", "o", "r">>,
     KeyNotFound |-> <<"K", "e", "y", "N", "o", "t", "F", "o", "u", "n", "d">>,
     InvalidArgument |-> <<"I", "n", "v", "a", "l", "i", "d", "A", "r", "g", "u", "m", "e", "n", "t">>,
     IOErr |-> <<"I", "O", "E", "r", "r">>,
     EncryptionError |-> <<"E", "n", "c", "r", "y", "p", "t", "i", "o", "n", "E", "r", "r", "o", "r">>,
     DecryptionError |-> <<"D", "e", "c", "r", "y", "p", "t", "i", "o", "n", "E", "r", "r", "o", "r">>,
     ConfigurationError |-> <<"C", "o", "n", "f", "i", "g", "u", "r", "a", "t", "i", "o", "n", "E", "r", "r", "o", "r">>,
     ScriptError |-> <<"S", "c", "r", "i", "p", "t", "E", "r", "r", "o", "r">>,
     SerializeError |-> <<"S", "e", "r", "i", "a", "l", "i", "z", "e", "E", "r", "r", "o", "r">>,
     DeserializeError |-> <<"D", "e", "s", "e", "r", "i", "a", "l", "i", "z", "e", "E", "r", "r", "o", "r">>,
     BadRequest |-> <<"B", "a", "d", "R", "e", "q", "u", "e", "s", "t">>,
     Conflict |-> <<"C", "o", "n", "f", "l", "i", "c", "t">>,
     Forbidden |-> <<"F", "o", "r", "b", "i", "d", "d", "e", "n">>,
     InternalServerError |-> <<"I", "n", "t", "e", "r", "n", "a", "l", "S", "e", "r", "v", "e", "r", "E", "r", "r", "o", "r">>,
     MethodNotAllowed |-> <<"M", "e", "t", "h", "o", "d", "N", "o", "t", "A", "l", "l", "o", "w", "e", "d">>,
     NotFound |-> <<"N", "o", "t", "F", "o", "u", "n", "d">>,
     NotImplemented |-> <<"N", "o", "t", "I", "m", "p", "l", "e", "m", "e", "n", "t", "e", "d">>,
     FailedDependency |-> <<"F", "a", "i", "l", "e", "d", "D", "e", "p", "e", "n", "d", "e", "n", "c", "y">>,
     ServiceUnavailable |-> <<"S", "e", "r", "v", "i", "c", "e", "U", "n", "a", "v", "a", "i", "l", "a", "b", "l", "e">>,
     TooManyRequests |-> <<"T", "o", "o", "M", "a", "n", "y", "R", "e", "q", "u", "e", "s", "t", "s">>,
     Unauthorized |-> <<"U", "n", "a", "u", "t", "h", "o", "r", "i", "z", "e", "d">>,
     UnprocessableEntity |-> <<"U", "n", "p", "r", "o", "c", "e", "s", "s", "a", "b", "l", "e", "E", "n", "t", "i", "t", "y">>]

\* ErrorMeta::code
error_code(e) ==
    CASE e.kind = "UnknownError" -> 1000
      [] e.kind = "UniqueFieldViolation" -> 1001
      [] e.kind = "Timeout" -> 1002
      [] e.kind = "ConnectionError" -> 1003
      [] e.kind = "KeyNotFound" -> 1004
      [] e.kind = "InvalidArgument" -> 1005
      [] e.kind = "IOErr" -> 1006
      [] e.kind = "EncryptionError" -> 1007
      [] e.kind = "DecryptionError" -> 1008
      [] e.kind = "ConfigurationError" -> 1009
      [] e.kind = "ScriptError" -> 1010
      [] e.kind = "SerializeError" -> 1011
      [] e.kind = "DeserializeError" -> 1012
      [] e.kind = "BadRequest" -> 2000
      [] e.kind = "Conflict" -> 2001
      [] e.kind = "Forbidden" -> 2002
      [] e.kind = "InternalServerError" -> 2003
      [] e.kind = "MethodNotAllowed" -> 2004
      [] e.kind = "NotFound" -> 2005
      [] e.kind = "NotImplemented" -> 2006
      [] e.kind = "FailedDependency" -> 2007
      [] e.kind = "ServiceUnavailable" -> 2008
      [] e.kind = "TooManyRequests" -> 2009
      [] e.kind = "Unauthorized" -> 2010
      [] e.kind = "UnprocessableEntity" -> 2011

\* The literal each variant passes to ErrorKey::internal / application.
KeyLiteral ==
    [UnknownError |-> <<"u", "n", "k", "n", "o", "w", "n">>,
     UniqueFieldViolation |-> <<"u", "n", "i", "q", "u", "e", "_", "v", "i", "o", "l", "a", "t", "i", "o", "n">>,
     Timeout |-> <<"t", "i", "m", "e", "o", "u", "t">>,
     ConnectionError |-> <<"c", "o", "n", "n", "e", "c", "t", "i", "o", "n", "_", "e", "r", "r", "o", "r">>,
     KeyNotFound |-> <<"k", "e", "y", "_", "n", "o", "t", "_", "f", "o", "u", "n", "d">>,
     InvalidArgument |-> <<"i", "n", "v", "a", "l", "i", "d", "_", "a", "r", "g", "u", "m", "e", "n", "t">>,
     IOErr |-> <<"i", "o", "_", "e", "r", "r">>,
     EncryptionError |-> <<"e", "n", "c", "r", "y", "p", "t", "i", "o", "n", "_", "e", "r", "r", "o", "r">>,
     DecryptionError |-> <<"d", "e", "c", "r", "y", "p", "t", "i", "o", "n", "_", "e", "r", "r", "o", "r">>,
     ConfigurationError |-> <<"c", "o", "n", "f", "i", "g", "u", "r", "a", "t", "i", "o", "n", "_", "e", "r", "r", "o", "r">>,
     ScriptError |-> <<"s", "c", "r", "i", "p", "t", "_", "e", "r", "r", "o", "r">>,
     SerializeError |-> <<"s", "e", "r", "i", "a", "l", "i", "z", "e", "_", "e", "r", "r", "o", "r">>,
     DeserializeError |-> <<"d", "e", "s", "e", "r", "i", "a", "l", "i", "z", "e", "_", "e", "r", "r", "o", "r">>,
     BadRequest |-> <<"b", "a", "d", "_", "r", "e", "q", "u", "e", "s", "t">>,
     Conflict |-> <<"c", "o", "n", "f", "l", "i", "c", "t">>,
     Forbidden |-> <<"f", "o", "r", "b", "i", "d", "d", "e", "n">>,
     InternalServerError |-> <<"i", "n", "t", "e", "r", "n", "a", "l", "_", "s", "e", "r", "v", "e", "r", "_", "e", "r", "r", "o", "r">>,
     MethodNotAllowed |-> <<"m", "e", "t", "h", "o", "d", "_", "n", "o", "t", "_", "a", "l", "l", "o", "w", "e", "d">>,
     NotFound |-> <<"n", "o", "t", "_", "f", "o", "u", "n", "d">>,
     NotImplemented |-> <<"n", "o", "t", "_", "i", "m", "p", "l", "e", "m", "e", "n", "t", "e", "d">>,
     FailedDependency |-> <<"f", "a", "i", "l", "e", "d", "_", "d", "e", "p", "e", "n", "d", "e", "n", "c", "y">>,
     ServiceUnavailable |-> <<"s", "e", "r", "v", "i", "c", "e", "_", "u", "n", "a", "v", "a", "i", "l", "a", "b", "l", "e">>,
     TooManyRequests |-> <<"t", "o", "o", "_", "m", "a", "n", "y", "_", "r", "e", "q", "u", "e", "s", "t", "s">>,
     Unauthorized |-> <<"u", "n", "a", "u", "t", "h", "o", "r", "i", "z", "e", "d">>,
     UnprocessableEntity |-> <<"u", "n", "p", "r", "o", "c", "e", "s", "s", "a", "b", "l", "e", "_", "e", "n", "t", "i", "t", "y">>]

\* ErrorKey::internal
ErrorKey_internal(key_name, subtype) ==
    IF subtype.some
    THEN <<"e", "r", "r", ":", ":", "i", "n", "t", "e", "r", "n", "a", "l", ":", ":">> \o key_name \o <<":", ":">> \o subtype.s
    ELSE <<"e", "r", "r", ":", ":", "i", "n", "t", "e", "r", "n", "a", "l", ":", ":">> \o key_name

\* ErrorKey::application
ErrorKey_application(key_name, subtype) ==
    IF subtype.some
    THEN <<"e", "r", "r", ":", ":", "a", "p", "p", "l", "i", "c", "a", "t", "i", "o", "n", ":", ":">> \o key_name \o <<":", ":">> \o subtype.s
    ELSE <<"e", "r", "r", ":", ":", "a", "p", "p", "l", "i", "c", "a", "t", "i", "o", "n", ":", ":">> \o key_name

\* ErrorMeta::key
error_key(e) ==
    IF e.tier = "Internal" THEN ErrorKey_internal(KeyLiteral[e.kind], e.subtype)
    ELSE ErrorKey_application(KeyLiteral[e.kind], e.subtype)

\* Mutant of StatusCode_from: every error answers 500.
StatusCode_from_always_500(e) == 500

\* impl From<&PicaError> for StatusCode
StatusCode_from(e) ==
    IF e.tier = "Internal"
    THEN CASE e.kind = "UniqueFieldViolation" -> 409
           [] e.kind = "Timeout" -> 504
           [] e.kind = "ConnectionError" -> 502
           [] e.kind = "KeyNotFound" -> 404
           [] e.kind \in {"InvalidArgument", "SerializeError",
                          "DeserializeError"} -> 400
           [] e.kind \in {"UnknownError", "IOErr", "EncryptionError",
                          "ConfigurationError", "ScriptError",
                          "DecryptionError"} -> 500
    ELSE CASE e.kind = "BadRequest" -> 400
           [] e.kind = "Conflict" -> 409
           [] e.kind = "Forbidden" -> 403
           [] e.kind = "InternalServerError" -> 500
           [] e.kind = "MethodNotAllowed" -> 405
           [] e.kind = "NotFound" -> 404
           [] e.kind = "NotImplemented" -> 501
           [] e.kind = "FailedDependency" -> 424
           [] e.kind = "ServiceUnavailable" -> 503
           [] e.kind = "TooManyRequests" -> 429
           [] e.kind = "Unauthorized" -> 401
           [] e.kind = "UnprocessableEntity" -> 422

\* Mutant of set_meta: the subtype is lost with the old meta.
set_meta_drops_subtype(e, meta) ==
    [e EXCEPT !.meta = meta, !.subtype = NoSubtype]

\* PicaError::set_meta
set_meta(e, meta) == [e EXCEPT !.meta = meta]

\* Mutant of ApplicationError_from: every kind becomes InternalServerError.
ApplicationError_from_all_unknown(e) ==
    PicaError("Application", "InternalServerError",
              "An unknown error occurred", NoSubtype, None)

\* impl From<InternalError> for ApplicationError
ApplicationError_from(e) ==
    CASE e.kind \in {"Timeout", "ConnectionError", "IOErr", "EncryptionError",
                     "DecryptionError", "ScriptError", "ConfigurationError",
                     "UnknownError"} ->
            PicaError("Application", "InternalServerError",
                      "An unknown error occurred", NoSubtype, None)
      [] e.kind = "UniqueFieldViolation" ->
            PicaError("Application", "Conflict", e.message, e.subtype, e.meta)
      [] e.kind = "KeyNotFound" ->
            PicaError("Application", "NotFound", e.message, e.subtype, e.meta)
      [] e.kind \in {"InvalidArgument", "SerializeError", "DeserializeError"} ->
            PicaError("Application", "BadRequest", e.message, e.subtype, e.meta)

\* PicaError::as_application
as_application(e) ==
    IF e.tier = "Application" THEN e ELSE ApplicationError_from(e)

\* Result<V, PicaError>
Ok(v) == [ok |-> TRUE, val |-> v, err |-> NoError]
Err(e) == [ok |-> FALSE, val |-> None, err |-> e]
NoResult == [ok |-> FALSE, val |-> None, err |-> NoError]

----------------------------------------------------------------------------
(* serde_json::Value and Option<Value>, as the dispatch handles them.       *)

JNull == [t |-> "null"]
JStr(s) == [t |-> "str", s |-> s]
JNum(n) == [t |-> "num", n |-> n]
JObj(f) == [t |-> "obj", f |-> f]
JArr(e) == [t |-> "arr", e |-> e]

\* Option::<Value>::None.
NoneV == [t |-> "none"]

\* json!({})
EmptyMap == [k \in {} |-> JNull]

IsObject(v) == v.t = "obj"
IsArray(v) == v.t = "arr"

\* serde_json::Map::contains_key / insert.
contains_key(m, k) == k \in DOMAIN m

map_insert(m, k, v) ==
    [x \in DOMAIN m \cup {k} |-> IF x = k THEN v ELSE m[x]]

\* JsonExt::drop_nulls on the values of the model: the fields of an object
\* whose value is null are removed (the model's script outputs are flat).
drop_nulls(v) ==
    IF IsObject(v)
    THEN JObj([k \in {x \in DOMAIN v.f : v.f[x] # JNull} |-> v.f[k]])
    ELSE v

\* Keys of the envelope and of a mapped object, and the header names. The
\* value of ACTION_KEY is defined outside these sources: the model names the
\* header by the constant.
UNIFIED_KEY == "unified"
PASSTHROUGH_KEY == "passthrough"
PAGINATION_KEY == "pagination"
META_KEY == "meta"
COUNT_KEY == "count"
LIMIT_KEY == "limit"
PAGE_SIZE_KEY == "pageSize"
MODIFY_TOKEN_KEY == "modifyToken"
ID_KEY == "id"
BODY_KEY == "body"
STATUS_HEADER_KEY == "x-integrationos-statuscode"
ACTION_KEY == "ACTION_KEY"

HeaderMap_new == [k \in {} |-> ""]

\* http::HeaderMap as a function from header names to values; extend replaces
\* the value of a name both maps hold by the value of the extending map.
extend(map, other) ==
    [k \in DOMAIN map \cup DOMAIN other |->
        IF k \in DOMAIN other THEN other[k] ELSE map[k]]

\* JSONPath strings of paths.response: none configured, "$.body.<field>",
\* "$.body.<field>[*]", or a string jsonpath_lib rejects.
NoPath == [kind |-> "none", field |-> "", wild |-> FALSE]
FieldPath(field, wild) == [kind |-> "field", field |-> field, wild |-> wild]
BadPath == [kind |-> "invalid", field |-> "", wild |-> FALSE]

\* UnifiedMetadataBuilder: whether build_unified_response has set the hash.
MetadataBuilder == [hash |-> FALSE]

----------------------------------------------------------------------------
(* The cache layer: cache/src/local.rs.                                    *)

\* The caches of a UnifiedDestination and the pattern each is read with:
\* the CMD and secret caches through get_or_insert_with_fn, the CMS cache
\* through get_or_insert_with_filter.
CacheIds == {"connection_model_definitions_cache", "secrets_cache",
             "connection_model_schemas_cache"}

Pattern(cid) ==
    IF cid = "connection_model_schemas_cache" THEN "with_filter" ELSE "with_fn"

NoEntry == [val |-> None, age |-> 0]

\* GenericCache::new: an empty moka cache
GenericCache_new == [k \in Keys |-> NoEntry]

\* GenericCache::get
cache_get(c, k) == c[k].val

\* GenericCache::insert
cache_insert(c, k, v) == [c EXCEPT ![k] = [val |-> v, age |-> 0]]

Live(c) == {k \in Keys : c[k] # NoEntry}

\* time_to_live: one tick of the clock ages every entry; an entry whose age
\* reaches the time to live is gone.
cache_tick(c) ==
    [k \in Keys |->
        IF c[k] = NoEntry \/ c[k].age + 1 >= TTL THEN NoEntry
        ELSE [c[k] EXCEPT !.age = @ + 1]]

\* Capacity: moka evicts in the background once a cache holds more entries
\* than max_capacity; which entry goes is the policy's choice.
cache_evict(c, k) == [c EXCEPT ![k] = NoEntry]

\* One call of get_or_insert_with_filter / get_or_insert_with_fn: where it
\* stands (pc), its cache and key, what the store or the producer gave it
\* (out), what it returned (res), whether it asked the store or ran the
\* producer (ran), and the calls that had returned when it began (after).
IdleCall ==
    [pc |-> "idle", cid |-> None, key |-> None, out |-> NoResult,
     res |-> NoResult, ran |-> FALSE, after |-> {}]

\* Mutants of get_step: a lookup that never hits, and one that on a miss
\* goes to insert a default before any producer ran.
get_step_never_hits(call, c) == [call EXCEPT !.pc = "miss"]

get_step_eager_insert(call, c) ==
    IF cache_get(c, call.key) # None
    THEN [call EXCEPT !.pc = "done", !.res = Ok(cache_get(c, call.key))]
    ELSE [call EXCEPT !.pc = "insert", !.out = Ok("v1")]

\* self.get(key).await?  -- a hit returns the entry, a miss goes on
get_step(call, c) ==
    IF cache_get(c, call.key) # None
    THEN [call EXCEPT !.pc = "done", !.res = Ok(cache_get(c, call.key))]
    ELSE [call EXCEPT !.pc = "miss"]

\* Mutant of filter_miss_step: a store miss is cached and returned.
filter_miss_step_caches_miss(call, found) ==
    IF ~found.ok
    THEN [call EXCEPT !.pc = "done", !.ran = TRUE, !.out = found, !.res = found]
    ELSE [call EXCEPT !.pc = "insert", !.ran = TRUE,
                      !.out = Ok(IF found.val = None THEN "v2" ELSE found.val)]

\* The miss arm of get_or_insert_with_filter: found is what
\* store.collection.find_one(filter).await gave, Ok(None) when no record
\* matches.
filter_miss_step(call, found) ==
    IF ~found.ok
    THEN [call EXCEPT !.pc = "done", !.ran = TRUE, !.out = found, !.res = found]
    ELSE IF found.val # None
    THEN [call EXCEPT !.pc = "insert", !.ran = TRUE, !.out = found]
    ELSE [call EXCEPT !.pc = "done", !.ran = TRUE, !.out = found,
                      !.res = Err(ApplicationError("NotFound", "Value not found"))]

\* A variant of fn_miss_step that goes on to the insert when the producer
\* failed.
fn_miss_step_inserts_failure(call, produced) ==
    [call EXCEPT !.pc = "insert", !.ran = TRUE, !.out = produced]

\* The miss arm of get_or_insert_with_fn: produced is what fa().await gave.
fn_miss_step(call, produced) ==
    IF ~produced.ok
    THEN [call EXCEPT !.pc = "done", !.ran = TRUE, !.out = produced,
                      !.res = produced]
    ELSE [call EXCEPT !.pc = "insert", !.ran = TRUE, !.out = produced]

\* self.insert(key, &value).await?; Ok(value)
insert_step(call) == [call EXCEPT !.pc = "done", !.res = Ok(call.out.val)]

insert_cache(call, c) == cache_insert(c, call.key, call.out.val)

\* What the document store gives find_one for key k: the record, no record,
\* or a driver error (From<mongodb::error::Error> for PicaError).
StoreError == InternalError("ConnectionError", "Server selection failed")

find_one(k) == {Ok(store[k]), Err(StoreError)}

\* What a producer passed to get_or_insert_with_fn may give.
ProducerError == InternalError("KeyNotFound", "secret")

Produced == {Ok(v) : v \in Values} \cup {Err(ProducerError)}

Calls == 1..MaxCalls

Returned == {c \in Calls : calls[c].pc \in {"done", "cancelled"}}

\* A caller starts get_or_insert_with_filter or get_or_insert_with_fn.
Begin(c, cid, k) ==
    /\ calls[c].pc = "idle"
    /\ \A d \in Calls : d < c => calls[d].pc # "idle"
    /\ calls' = [calls EXCEPT ![c] =
                    [IdleCall EXCEPT !.pc = "get", !.cid = cid, !.key = k,
                                     !.after = Returned]]
    /\ UNCHANGED <<cache, lost, store, deps, req, err, crud, route, conn, client>>

Get(c) ==
    /\ calls[c].pc = "get"
    /\ calls' = [calls EXCEPT ![c] = get_step(@, cache[calls[c].cid])]
    /\ UNCHANGED <<cache, lost, store, deps, req, err, crud, route, conn, client>>

FindOne(c) ==
    /\ calls[c].pc = "miss"
    /\ Pattern(calls[c].cid) = "with_filter"
    /\ \E found \in find_one(calls[c].key) :
          calls' = [calls EXCEPT ![c] = filter_miss_step(@, found)]
    /\ UNCHANGED <<cache, lost, store, deps, req, err, crud, route, conn, client>>

Produce(c) ==
    /\ calls[c].pc = "miss"
    /\ Pattern(calls[c].cid) = "with_fn"
    /\ \E produced \in Produced :
          calls' = [calls EXCEPT ![c] = fn_miss_step(@, produced)]
    /\ UNCHANGED <<cache, lost, store, deps, req, err, crud, route, conn, client>>

Insert(c) ==
    /\ calls[c].pc = "insert"
    /\ cache' = [cache EXCEPT ![calls[c].cid] = insert_cache(calls[c], @)]
    /\ calls' = [calls EXCEPT ![c] = insert_step(@)]
    /\ UNCHANGED <<lost, store, deps, req, err, crud, route, conn, client>>

\* The caller drops the future at one of its await points.
Cancel(c) ==
    /\ calls[c].pc \in {"get", "miss", "insert"}
    /\ calls' = [calls EXCEPT ![c].pc = "cancelled"]
    /\ UNCHANGED <<cache, lost, store, deps, req, err, crud, route, conn, client>>

\* The entries of cache c that the next tick of the clock expires.
Expiring(c) == {k \in Live(c) : cache_tick(c)[k] = NoEntry}

\* A tick of the clock; lost records the entries that left a cache before
\* being replaced, by expiry here and by eviction below.
Tick ==
    /\ \E cid \in DOMAIN cache : Live(cache[cid]) # {}
    /\ cache' = [cid \in DOMAIN cache |-> cache_tick(cache[cid])]
    /\ lost' = lost \cup
                {e \in (DOMAIN cache) \X Keys \X {"expired"} :
                    e[2] \in Expiring(cache[e[1]])}
    /\ UNCHANGED <<calls, store, deps, req, err, crud, route, conn, client>>

Evict(cid, k) ==
    /\ Cardinality(Live(cache[cid])) > CacheSize
    /\ k \in Live(cache[cid])
    /\ cache' = [cache EXCEPT ![cid] = cache_evict(@, k)]
    /\ lost' = lost \cup {<<cid, k, "evicted">>}
    /\ UNCHANGED <<calls, store, deps, req, err, crud, route, conn, client>>

Futs == {"config_fut", "secret_fut", "schema_fut"}

\* The cache each future of get_dependencies reads.
FutCache(f) ==
    CASE f = "config_fut" -> "connection_model_definitions_cache"
      [] f = "secret_fut" -> "secrets_cache"
      [] f = "schema_fut" -> "connection_model_schemas_cache"

\* get_dependencies of one dispatch: where it stands, which dispatch it is,
\* its three lookups, what the store or the secrets client answered each
\* ("found", "missing", "failed"; "none" when not asked), and its result.
IdleDeps ==
    [pc |-> "idle", round |-> 0, futs |-> [f \in Futs |-> IdleCall],
     ext |-> [f \in Futs |-> None], res |-> NoResult]

\* The parts of the state a specification does not follow stay at these.
\* An error value: not built yet, or built by a constructor or by
\* from_err_code from the raw subtype, then changed by op from prev; metas
\* counts the set_meta calls.
IdleErr ==
    [pc |-> "idle", e |-> NoError, by |-> "none", raw |-> NoSubtype,
     prev |-> NoError, op |-> "none", metas |-> 0]
IdleCrud == [pc |-> "idle"]
\* A ConnectionModelDefinition of the platform and method of the request.
Cmd(id, path, supported) == [id |-> id, path |-> path, supported |-> supported]
NoCmd == Cmd(None, <<>>, FALSE)

\* The entry of a cache for one key: absent, or a value.
Absent == [some |-> FALSE]
Cached(v) == [some |-> TRUE, val |-> v]

\* One dispatch by way of the route caches: its kind, the store's CMDs, the
\* request, the caches (CMD by id, the CMD of the unified destination, the
\* secret of the connection), the values the dispatch works on, the calls
\* it made to the secrets client and to the upstream, and its result.
IdleRoute ==
    [pc |-> "idle", kind |-> None, round |-> 0, cmds |-> <<>>, path |-> <<>>,
     id |-> None, action_id |-> None, connection |-> None, up |-> TRUE,
     cmd_cache |-> [k \in {} |-> NoCmd], definitions_cache |-> Absent,
     secrets_cache |-> Absent, hit |-> FALSE, config |-> NoCmd,
     templated |-> NoCmd, rendered |-> NoCmd, secret |-> None,
     value |-> NoneV, secrets_calls |-> 0, called |-> <<>>,
     http_calls |-> 0, res |-> NoResult]

\* identity.len() > 128
IDENTITY_MAX == 128

Text(s, pad) == [s |-> s, pad |-> pad]

NoText == [some |-> FALSE, s |-> <<>>, pad |-> 0]
SomeText(t) == [some |-> TRUE, s |-> t.s, pad |-> t.pad]

\* Option<String>::unwrap_or_else
unwrap_or_else(o, default) == IF o.some THEN Text(o.s, o.pad) ELSE default

\* The bytes of one character in UTF-8.
utf8_len(c) == IF c = "é" THEN 2 ELSE 1

RECURSIVE bytes_of(_)
bytes_of(s) == IF s = <<>> THEN 0 ELSE utf8_len(Head(s)) + bytes_of(Tail(s))

\* String::len: the length in bytes.
len(t) == bytes_of(t.s) + t.pad

\* The number of characters of a text.
chars_count(t) == Len(t.s) + t.pad

\* identity.replace(&[' ', ':'][..], "-")
replace(t) ==
    Text([i \in 1..Len(t.s) |-> IF t.s[i] \in {" ", ":"} THEN "-" ELSE t.s[i]],
         t.pad)

\* A variant of key_suffix that keeps the identity as it is.
key_suffix_verbatim(uuid, identity) ==
    IF identity = uuid THEN uuid
    ELSE Text(uuid.s \o <<"|">> \o identity.s, identity.pad)

\* let key_suffix = if identity == uuid { .. } else { format!("{}|{}", ..) }
key_suffix(uuid, identity) ==
    IF identity = uuid THEN uuid
    ELSE Text(uuid.s \o <<"|">> \o replace(identity).s, identity.pad)

\* CreateConnectionPayload: the fields the key is made of.
CreateConnectionPayload(identity, group) ==
    [identity |-> identity, group |-> group]

\* payload.validate(): the payload derives Validate without any rule.
validate(payload) == TRUE

\* A variant of the identity check that lets every identity through.
identity_too_long_never(payload) == FALSE

\* if let Some(identity) = &payload.identity { if identity.len() > 128 {..} }
identity_too_long(payload) ==
    payload.identity.some /\ len(payload.identity) > IDENTITY_MAX

\* What a call has done outside itself: the lookups, coordinator calls,
\* probes, delete_all calls, secrets and records it made, and whether the
\* service and the deployment exist in the cluster.
NoEffects ==
    [lookups |-> 0, pods |-> 0, tests |-> 0, deletes |-> 0, secrets |-> 0,
     records |-> 0, service |-> FALSE, deployment |-> FALSE]

\* No Connection record in the store.
NoRecord == [written |-> FALSE, secrets_service_id |-> None]

\* let conn = Connection { .., secrets_service_id: secret_result.id(), .. }
\* without the id of the secret.
Connection_without_secret(secret_id) ==
    [written |-> TRUE, secrets_service_id |-> None]

\* let conn = Connection { .., secrets_service_id: secret_result.id(), .. }
Connection(secret_id) ==
    [written |-> TRUE, secrets_service_id |-> secret_id]

IdleConn ==
    [pc |-> "idle", payload |-> CreateConnectionPayload(NoText, NoText),
     type |-> None, uuid |-> Text(<<>>, 0), group |-> Text(<<>>, 0),
     identity |-> Text(<<>>, 0), key_suffix |-> Text(<<>>, 0),
     effects |-> NoEffects, secret |-> None, record |-> NoRecord,
     log |-> <<>>, res |-> NoResult]

\* One call of CallerClient::make_request: where it stands, the config and
\* the secret it was given, the requests put on the wire, what the upstream
\* answered, and its result.
IdleClient ==
    [pc |-> "idle", auth_method |-> None, secret |-> None, base_url |-> <<>>,
     path |-> <<>>, endpoint |-> <<>>, built |-> FALSE, sent |-> 0,
     up |-> [status |-> 0, body |-> None], res |-> NoResult]

\* The upstream response of a dispatch, before it has arrived.
NoUp == [status |-> 0, headers |-> HeaderMap_new, body |-> NoneV]

\* The parts of the request and of the CMD and CMS that the response half
\* reads, each drawn where the code first reads it ("unread" before that).
NoInputs ==
    [production |-> FALSE, path |-> NoPath, cms_mapping |-> "unread",
     cmd_mapping |-> "unread", cursor |-> NoPath, limit |-> "unread",
     order |-> <<>>, query_limit |-> "unread"]

\* The secret and the body a dispatch hands to the upstream call, before
\* the request is mapped and after the call has consumed them.
NoOut == [secret |-> NoneV, body |-> NoneV]

\* One unified dispatch: where it stands, its action, the upstream response
\* and how many upstream calls were made, the parsed body, the passthrough
\* and pagination values, the body extracted at the response path and the
\* mapped body, the steps run so far, and its result.
IdleReq ==
    [pc |-> "idle", action_name |-> "none", is_passthrough |-> FALSE,
     out |-> NoOut, up |-> NoUp, http_calls |-> 0, body |-> NoneV,
     passthrough |-> NoneV,
     pagination |-> NoneV, extracted |-> NoResult, mapped |-> NoneV,
     metadata |-> MetadataBuilder, inp |-> NoInputs, log |-> <<>>,
     res |-> NoResult]

\* The state after construction, with the caches cids.
InitCaches(cids) ==
    /\ cache = [cid \in cids |-> GenericCache_new]
    /\ calls = [c \in Calls |-> IdleCall]
    /\ lost = {}
    /\ store \in [Keys -> {"v1", None}]
    /\ deps = IdleDeps
    /\ req = IdleReq
    /\ err = IdleErr
    /\ crud = IdleCrud
    /\ route = IdleRoute
    /\ conn = IdleConn
    /\ client = IdleClient

\* SpecFilter: concurrent get_or_insert_with_filter calls on the CMS cache.
InitFilter == InitCaches({"connection_model_schemas_cache"})

NextFilter ==
    \/ \E c \in Calls, k \in Keys : Begin(c, "connection_model_schemas_cache", k)
    \/ \E c \in Calls : Get(c)
    \/ \E c \in Calls : FindOne(c)
    \/ \E c \in Calls : Insert(c)
    \/ \E c \in Calls : Cancel(c)
    \/ Tick
    \/ \E k \in Keys : Evict("connection_model_schemas_cache", k)

SpecFilter == InitFilter /\ [][NextFilter]_vars

\* SpecFn: concurrent get_or_insert_with_fn calls on the secret cache.
InitFn == InitCaches({"secrets_cache"}) /\ store = [k \in Keys |-> None]

NextFn ==
    \/ \E c \in Calls, k \in Keys : Begin(c, "secrets_cache", k)
    \/ \E c \in Calls : Get(c)
    \/ \E c \in Calls : Produce(c)
    \/ \E c \in Calls : Insert(c)
    \/ \E c \in Calls : Cancel(c)
    \/ Tick
    \/ \E k \in Keys : Evict("secrets_cache", k)

SpecFn == InitFn /\ [][NextFn]_vars

----------------------------------------------------------------------------
(* Dependency resolution: UnifiedDestination::get_dependencies.            *)

\* What get_connection_model_definition gives for Action::Unified: the
\* store's find_one, Ok(None) when no CMD matches.
FindCmd == [found |-> Ok("v1"), missing |-> Ok(None), failed |-> Err(StoreError)]

\* What secrets_client.get gives: Result<Secret, PicaError>, so a secret the
\* vault does not hold is an error of the client.
SecretMissing == InternalError("KeyNotFound", "Secret not found")

SecretsGet ==
    [found |-> Ok("v1"), missing |-> Err(SecretMissing),
     failed |-> Err(InternalError("IOErr", "Failed to send request"))]

\* Option<Result<V, E>>, as .map(|v| Some(v).transpose()) builds it.
Some(r) == [some |-> TRUE, inner |-> r]

\* Option::transpose: Option<Result<V, E>> to Result<Option<V>, E>; None
\* becomes Ok(None), Some(Ok(v)) becomes Ok(Some(v)), Some(Err(e)) is Err(e).
transpose(o) ==
    IF ~o.some THEN Ok(None)
    ELSE IF o.inner.ok THEN Ok(o.inner.val)
    ELSE Err(o.inner.err)

\* The producer of config_fut.
config_producer(found) ==
    IF found.ok /\ found.val # None THEN Ok(found.val)
    ELSE IF found.ok THEN Err(InternalError("KeyNotFound", "model definition"))
    ELSE Err(InternalError("ConnectionError",
                           "Failed to get connection model definition"))

\* The producer of secret_fut.
secret_producer(got) ==
    LET r == transpose(Some(got))
    IN  IF r.ok /\ r.val # None THEN Ok(r.val)
        ELSE IF r.ok THEN Err(InternalError("KeyNotFound", "secret"))
        ELSE Err(InternalError("ConnectionError", "Failed to get secret"))

\* A variant of join_result that reports the schema lookup's error first.
join_result_schema_first(c, s, m) ==
    IF c.ok /\ s.ok /\ m.ok THEN Ok(<<c.val, s.val, m.val>>)
    ELSE IF ~m.ok THEN Err(m.err)
    ELSE IF ~s.ok THEN Err(s.err)
    ELSE Err(c.err)

\* let res = tokio::join!(config_fut, secret_fut, schema_fut); match res
join_result(c, s, m) ==
    IF c.ok /\ s.ok /\ m.ok THEN Ok(<<c.val, s.val, m.val>>)
    ELSE IF ~c.ok THEN Err(c.err)
    ELSE IF ~s.ok THEN Err(s.err)
    ELSE Err(m.err)

\* A dispatch calls get_dependencies: the three futures are built and
\* tokio::join! starts polling them.
DepsStart(k) ==
    /\ deps.pc = "idle"
    /\ deps.round < MaxRounds
    /\ deps' = [deps EXCEPT
                  !.pc = "join", !.round = @ + 1, !.res = NoResult,
                  !.ext = [f \in Futs |-> None],
                  !.futs = [f \in Futs |->
                      [IdleCall EXCEPT !.pc = "get", !.cid = FutCache(f),
                                       !.key = k]]]
    /\ UNCHANGED <<cache, calls, lost, store, req, err, crud, route, conn, client>>

FutGet(f) ==
    /\ deps.pc = "join"
    /\ deps.futs[f].pc = "get"
    /\ deps' = [deps EXCEPT !.futs[f] = get_step(@, cache[FutCache(f)])]
    /\ UNCHANGED <<cache, calls, lost, store, req, err, crud, route, conn, client>>

ConfigProduce ==
    /\ deps.pc = "join"
    /\ deps.futs["config_fut"].pc = "miss"
    /\ \E e \in DOMAIN FindCmd :
          deps' = [deps EXCEPT
                     !.ext["config_fut"] = e,
                     !.futs["config_fut"] =
                         fn_miss_step(@, config_producer(FindCmd[e]))]
    /\ UNCHANGED <<cache, calls, lost, store, req, err, crud, route, conn, client>>

SecretProduce ==
    /\ deps.pc = "join"
    /\ deps.futs["secret_fut"].pc = "miss"
    /\ \E e \in DOMAIN SecretsGet :
          deps' = [deps EXCEPT
                     !.ext["secret_fut"] = e,
                     !.futs["secret_fut"] =
                         fn_miss_step(@, secret_producer(SecretsGet[e]))]
    /\ UNCHANGED <<cache, calls, lost, store, req, err, crud, route, conn, client>>

SchemaFindOne ==
    /\ deps.pc = "join"
    /\ deps.futs["schema_fut"].pc = "miss"
    /\ \E found \in find_one(deps.futs["schema_fut"].key) :
          deps' = [deps EXCEPT
                     !.ext["schema_fut"] =
                         IF ~found.ok THEN "failed"
                         ELSE IF found.val = None THEN "missing" ELSE "found",
                     !.futs["schema_fut"] = filter_miss_step(@, found)]
    /\ UNCHANGED <<cache, calls, lost, store, req, err, crud, route, conn, client>>

FutInsert(f) ==
    /\ deps.pc = "join"
    /\ deps.futs[f].pc = "insert"
    /\ cache' = [cache EXCEPT ![FutCache(f)] = insert_cache(deps.futs[f], @)]
    /\ deps' = [deps EXCEPT !.futs[f] = insert_step(@)]
    /\ UNCHANGED <<calls, lost, store, req, err, crud, route, conn, client>>

\* All three futures are ready: tokio::join! returns and the match decides.
DepsJoin ==
    /\ deps.pc = "join"
    /\ \A f \in Futs : deps.futs[f].pc = "done"
    /\ deps' = [deps EXCEPT
                  !.pc = "done",
                  !.res = join_result(deps.futs["config_fut"].res,
                                      deps.futs["secret_fut"].res,
                                      deps.futs["schema_fut"].res)]
    /\ UNCHANGED <<cache, calls, lost, store, req, err, crud, route, conn, client>>

\* The dispatch is over; the caches stay for the next one.
DepsReturn ==
    /\ deps.pc = "done"
    /\ deps.round < MaxRounds
    /\ deps' = [deps EXCEPT !.pc = "idle"]
    /\ UNCHANGED <<cache, calls, lost, store, req, err, crud, route, conn, client>>

InitDeps == InitCaches(CacheIds)

NextDeps ==
    \/ \E k \in Keys : DepsStart(k)
    \/ \E f \in Futs : FutGet(f)
    \/ ConfigProduce
    \/ SecretProduce
    \/ SchemaFindOne
    \/ \E f \in Futs : FutInsert(f)
    \/ DepsJoin
    \/ DepsReturn

SpecDeps == InitDeps /\ [][NextDeps]_vars

----------------------------------------------------------------------------
(* The response half of UnifiedDestination::perform_unified_request and     *)
(* build_unified_response. The request half follows prepare_crud_mapping.   *)

CrudActions ==
    {"GetMany", "GetOne", "Create", "Update", "Upsert", "Delete", "GetCount",
     "Custom"}

is_client_error(status) == status >= 400 /\ status < 500
is_server_error(status) == status >= 500 /\ status < 600
is_success(status) == status >= 200 /\ status < 300

\* PicaError::from_err_code: the subtype is stored as given.
from_err_code(status, message, subtype) ==
    LET application(kind) ==
            PicaError("Application", kind, message, subtype, None)
    IN  CASE status = 400 -> application("BadRequest")
          [] status = 409 -> application("Conflict")
          [] status = 403 -> application("Forbidden")
          [] status = 500 -> application("InternalServerError")
          [] status = 405 -> application("MethodNotAllowed")
          [] status = 404 -> application("NotFound")
          [] status = 501 -> application("NotImplemented")
          [] status = 424 -> application("FailedDependency")
          [] status = 503 -> application("ServiceUnavailable")
          [] status = 429 -> application("TooManyRequests")
          [] status = 401 -> application("Unauthorized")
          [] status = 422 -> application("UnprocessableEntity")
          [] OTHER ->
                IF is_client_error(status) THEN application("BadRequest")
                ELSE PicaError("Internal", "IOErr",
                        "Unknown error with status code: " \o ToString(status)
                            \o ", message: " \o message,
                        subtype, None)

\* The bytes of an upstream body that are not a JSON document; the empty body
\* is NotJson(""). A body that is a JSON document is held as its Value.
NotJson(text) == [t |-> "text", s |-> text]

DecodeError(raw) ==
    IF raw.s = "" THEN "error decoding response body: EOF while parsing a value"
    ELSE "error decoding response body: expected value"

\* response.json().await.map_err(|e| PicaError::from_err_code(status, ..))
response_json(status, raw) ==
    IF raw.t = "text" THEN Err(from_err_code(status, DecodeError(raw), NoSubtype))
    ELSE Ok(raw)

Response(status, headers, body) ==
    [status |-> status, headers |-> headers, body |-> body]

UnifiedResponse(response, metadata) ==
    [response |-> response, metadata |-> metadata]

\* What lines 395-428 decide: the dispatch returns here with res, or goes on
\* with the body.
Returns(res) == [returned |-> TRUE, res |-> res, body |-> NoneV]
GoesOn(body) == [returned |-> FALSE, res |-> NoResult, body |-> body]

\* Mutant of success_body: a body that does not parse fails the dispatch.
success_body_strict(body) ==
    IF body.ok THEN GoesOn(body.val) ELSE Returns(Err(body.err))

\* Ok(_) => body.ok(): the parse error is dropped, the body is None.
success_body(body) ==
    GoesOn(IF body.ok THEN body.val ELSE NoneV)

\* Err(e) => { Response::builder().status(status).body(body?) ..; return }
error_response(status, headers, body, metadata) ==
    IF ~body.ok THEN Returns(Err(body.err))
    ELSE Returns(Ok(UnifiedResponse(Response(status, headers, body.val),
                                    metadata)))

read_response(status, headers, raw, metadata) ==
    LET error_for_status == is_client_error(status) \/ is_server_error(status)
        body == response_json(status, raw)
    IN  IF error_for_status
        THEN error_response(status, headers, body, metadata)
        ELSE success_body(body)

\* jsonpath_lib::select(&json!({ BODY_KEY: x }), path): the selected nodes.
\* A None body serialises as null. The wildcard is only put on fields that
\* hold an array or a scalar in the bodies of the model.
select(x, path) ==
    IF path.kind = "invalid" THEN [ok |-> FALSE, nodes |-> <<>>]
    ELSE IF ~(IsObject(x) /\ contains_key(x.f, path.field))
    THEN [ok |-> TRUE, nodes |-> <<>>]
    ELSE IF ~path.wild THEN [ok |-> TRUE, nodes |-> <<x.f[path.field]>>]
    ELSE IF IsArray(x.f[path.field])
    THEN [ok |-> TRUE, nodes |-> x.f[path.field].e]
    ELSE [ok |-> TRUE, nodes |-> <<>>]

SelectError == ApplicationError("BadRequest", "path error")

transform_response_with_path(action_name, path, body, production) ==
    IF path.kind = "none" THEN Ok(body)
    ELSE LET bodies == select(body, path)
             is_returning_error ==
                 ~production /\ action_name \in {"GetMany", "GetOne"}
         IN  IF ~bodies.ok THEN Err(SelectError)
             ELSE IF Len(bodies.nodes) = 0 /\ is_returning_error
             THEN Err(from_err_code(422,
                     "Could not map unified model. 3rd party Connection returned an invalid response.",
                     NoSubtype))
             ELSE IF Len(bodies.nodes) # 1 /\ is_returning_error
             THEN Err(InternalError("InvalidArgument",
                                    "Invalid number of selected bodies"))
             ELSE IF Len(bodies.nodes) = 1 THEN Ok(bodies.nodes[1])
             ELSE Ok(NoneV)

extract_pagination(path, body) ==
    IF path.kind = "none" THEN Ok(NoneV)
    ELSE IF body = NoneV THEN Ok(NoneV)
    ELSE LET bodies == select(body, path)
         IN  IF ~bodies.ok THEN Err(SelectError)
             ELSE IF Len(bodies.nodes) = 1 THEN Ok(bodies.nodes[1])
             ELSE Ok(JNull)

\* Tenant scripts, by what they do to their input. The script runtime is not
\* part of these sources: a script is any function of its input that returns
\* a value or fails, and "no_compile" is code jsruntime.create rejects.
Scripts ==
    {"identity", "set_token", "null_token", "to_string", "fail_without_id",
     "no_compile"}

ScriptError == InternalError("ScriptError", "script failed")

\* jsruntime.create(fn_name, namespace, code)
jsruntime_create(code) == IF code = "no_compile" THEN Err(ScriptError) ELSE Ok(code)

\* jsruntime.run::<Value, Value>(&body, namespace) of mapToCommonModel.
jsruntime_run(code, body) ==
    CASE code = "identity" -> Ok(body)
      [] code = "set_token" ->
            Ok(IF IsObject(body)
               THEN JObj(map_insert(body.f, MODIFY_TOKEN_KEY, JStr("tok")))
               ELSE body)
      [] code = "null_token" ->
            Ok(IF IsObject(body)
               THEN JObj(map_insert(body.f, MODIFY_TOKEN_KEY, JNull))
               ELSE body)
      [] code = "to_string" -> Ok(JStr("mapped"))
      [] code = "fail_without_id" ->
            IF IsObject(body) /\ contains_key(body.f, ID_KEY) THEN Ok(body)
            ELSE Err(ScriptError)

\* The async block run on each element of an array body (lines 477-491).
map_element(code, body) ==
    LET ran == jsruntime_run(code, body)
        response == drop_nulls(ran.val)
    IN  IF ~ran.ok THEN ran
        ELSE IF IsObject(response)
        THEN IF ~contains_key(response.f, MODIFY_TOKEN_KEY)
             THEN Ok(JObj(map_insert(response.f, MODIFY_TOKEN_KEY,
                        IF contains_key(response.f, ID_KEY)
                        THEN response.f[ID_KEY] ELSE JStr(""))))
             ELSE Ok(response)
        ELSE Ok(response)

\* The orders in which n concurrent futures may complete.
Orders(n) ==
    {o \in [1..n -> 1..n] : \A i, j \in 1..n : i # j => o[i] # o[j]}

\* A variant of join_all that yields the outputs in the order of completion.
join_all_as_completed(outputs, order) ==
    [k \in DOMAIN order |-> outputs[order[k]]]

RECURSIVE complete(_, _, _)
complete(slots, outputs, order) ==
    IF order = <<>> THEN slots
    ELSE complete([slots EXCEPT ![Head(order)] = outputs[Head(order)]],
                  outputs, Tail(order))

\* join_all(futures).await: each future's output is put in the slot of its
\* future as the futures complete, in the order order; the slots are
\* returned when all are filled.
join_all(outputs, order) ==
    complete([i \in DOMAIN outputs |-> NoResult], outputs, order)

\* .into_iter().collect::<Result<Vec<Value>, _>>(): the values in the order
\* of the results, or the first error in that order.
collect(results) ==
    IF \A i \in DOMAIN results : results[i].ok
    THEN Ok(JArr([i \in DOMAIN results |-> results[i].val]))
    ELSE Err(results[CHOOSE i \in DOMAIN results :
                        /\ ~results[i].ok
                        /\ \A j \in DOMAIN results : j < i => results[j].ok].err)

\* The single-value arm (lines 499-503).
map_single(code, body) ==
    LET ran == jsruntime_run(code, body)
    IN  IF ran.ok THEN Ok(drop_nulls(ran.val)) ELSE ran

\* let mapped_body = match body { .. } (lines 472-507); body is the
\* Result<Option<Value>, PicaError> of transform_response_with_path.
mapped_body(action_name, code, body, order) ==
    IF body.ok /\ body.val # NoneV /\ IsArray(body.val)
    THEN collect(join_all(
            [i \in DOMAIN body.val.e |-> map_element(code, body.val.e[i])],
            order))
    ELSE IF body.ok /\ body.val # NoneV THEN map_single(code, body.val)
    ELSE IF body.ok /\ action_name = "GetMany" THEN Ok(JArr(<<>>))
    ELSE IF ~body.ok THEN Err(body.err)
    ELSE Ok(JObj(EmptyMap))

\* let body = match config.action_name { .. }? (lines 462-523); cms_mapping is
\* "none" when cms.mapping is None, else the to_common_model code.
map_response(action_name, cms_mapping, body, order) ==
    IF action_name \in {"GetMany", "GetOne", "Create", "Upsert"}
    THEN IF cms_mapping = "none"
         THEN Err(InternalError("InvalidArgument",
                     "No js for schema mapping to common model"))
         ELSE IF ~jsruntime_create(cms_mapping).ok
         THEN jsruntime_create(cms_mapping)
         ELSE mapped_body(action_name, cms_mapping, body, order)
    ELSE IF action_name \in {"GetCount", "Custom"} THEN body
    ELSE Ok(NoneV)

\* mapToCrudRequest of the CMD on the response: what its ResponseCrud holds
\* as pagination, given the cursor extract_pagination found.
CmdScripts ==
    {"none", "no_compile", "fails", "page_object", "page_absent", "page_string"}

run_map_crud_request(code, cursor) ==
    CASE code = "fails" -> Err(ScriptError)
      [] code = "page_object" ->
            Ok(JObj([k \in {"nextCursor"} |->
                        IF cursor = NoneV THEN JNull ELSE cursor]))
      [] code = "page_absent" -> Ok(NoneV)
      [] code = "page_string" -> Ok(JStr("next"))

\* let pagination = match &config.action_name { .. } (lines 433-459).
paginate(action_name, code, cursor_path, body) ==
    IF action_name = "GetMany" /\ code # "none"
    THEN IF ~jsruntime_create(code).ok THEN jsruntime_create(code)
         ELSE LET pagination == extract_pagination(cursor_path, body)
              IN  IF ~pagination.ok THEN pagination
                  ELSE run_map_crud_request(code, pagination.val)
    ELSE Ok(NoneV)

\* Mutant of passthrough_snapshot: no copy of the body is ever kept.
passthrough_snapshot_never(is_passthrough, body) == NoneV

\* let passthrough = if is_passthrough { body.clone() } else { None };
passthrough_snapshot(is_passthrough, body) ==
    IF is_passthrough THEN body ELSE NoneV

\* The limit query parameter of the request: absent, or a string that
\* s.parse::<u32>() accepts or rejects.
Limits == {"absent", "50", "abc"}

\* The limit query parameter of params after lines 355-382, given the
\* request's: the CMD script builds the RequestCrud it returns, and without
\* the script params is the request's own RequestCrud.
mapped_limits(query_limit, log) ==
    IF query_limit = "unread" THEN {"unread"}
    ELSE IF \E i \in DOMAIN log : log[i] = "mapFromCrudRequest" THEN Limits
    ELSE {query_limit}

parse_u32(str) ==
    IF str = "50" THEN [ok |-> TRUE, n |-> 50] ELSE [ok |-> FALSE, n |-> 0]

\* The closure build_unified_response returns (lines 715-809).
build_unified_response(action_name, is_passthrough, metadata, body, pagination, passthrough, limit, status, headers) ==
    LET response_len ==
            IF body # NoneV /\ IsArray(body) THEN Len(body.e) ELSE 0
        hashed == [metadata EXCEPT !.hash = TRUE]
        with_unified ==
            IF body # NoneV
            THEN map_insert(EmptyMap, UNIFIED_KEY,
                    IF action_name = "GetCount"
                    THEN JObj([k \in {COUNT_KEY} |-> body]) ELSE body)
            ELSE EmptyMap
        action_header ==
            IF is_passthrough
            THEN map_insert(HeaderMap_new, ACTION_KEY, "config.title")
            ELSE HeaderMap_new
        with_passthrough ==
            IF is_passthrough /\ passthrough # NoneV
            THEN map_insert(with_unified, PASSTHROUGH_KEY, passthrough)
            ELSE with_unified
        with_limit ==
            IF limit # "absent" /\ parse_u32(limit).ok
            THEN map_insert(pagination.f, LIMIT_KEY, JNum(parse_u32(limit).n))
            ELSE pagination.f
        with_pagination ==
            IF pagination # NoneV /\ IsObject(pagination)
            THEN map_insert(with_passthrough, PAGINATION_KEY,
                    JObj(map_insert(with_limit, PAGE_SIZE_KEY,
                                    JNum(response_len))))
            ELSE with_passthrough
        with_meta ==
            map_insert(with_pagination, META_KEY, [t |-> "meta", v |-> hashed])
        builder_headers ==
            IF is_success(status)
            THEN map_insert(action_header, STATUS_HEADER_KEY, ToString(status))
            ELSE action_header
        builder_status == IF is_success(status) THEN 200 ELSE status
    IN  Ok(UnifiedResponse(
            Response(builder_status, extend(builder_headers, headers),
                     JObj(with_meta)),
            hashed))

\* The upstream responses of the model.
Statuses == {200, 302, 404, 502}

UpstreamHeaders ==
    {[k \in {"content-type"} |-> "text/plain"],
     [k \in {"content-type", STATUS_HEADER_KEY} |->
        IF k = STATUS_HEADER_KEY THEN "201" ELSE "text/plain"]}

Obj1 == JObj([id |-> JStr("a")])
Obj2 == JObj([name |-> JStr("n")])
Arr == JArr(<<Obj1, Obj2>>)
Wrapped == JObj([data |-> Obj1, items |-> Arr, next_cursor |-> JStr("x")])

Bodies ==
    {NotJson(""), NotJson("Not found"), JStr("Not found"), Obj1, Obj2, Arr,
     Wrapped}

ResponsePaths ==
    {NoPath, FieldPath("data", FALSE), FieldPath("items", FALSE),
     FieldPath("items", TRUE), BadPath}

CursorPaths == {NoPath, FieldPath("next_cursor", FALSE), BadPath}

IsMapped(action_name) == action_name \in {"GetMany", "GetOne", "Create", "Upsert"}

\* perform_unified_request up to the mapping of the request: the
\* dependencies are resolved (lines 309-339).
Dispatch(action_name, is_passthrough) ==
    /\ req.pc = "idle"
    /\ req' = [IdleReq EXCEPT !.pc = "request", !.action_name = action_name,
                              !.is_passthrough = is_passthrough]
    /\ UNCHANGED <<cache, calls, lost, store, deps, err, crud, route, conn, client>>

\* execute_model_definition_from_request(..).await? (lines 391-393): the
\* call fails in transport, or the upstream answers.
HttpCall ==
    /\ req.pc = "call"
    /\ \/ req' = [req EXCEPT
                    !.pc = "done", !.http_calls = @ + 1, !.out = NoOut,
                    !.log = Append(@, "execute_model_definition"),
                    !.res = Err(InternalError("IOErr", "Failed to send request"))]
       \/ \E status \in Statuses, headers \in UpstreamHeaders, body \in Bodies :
            req' = [req EXCEPT
                      !.pc = "respond", !.http_calls = @ + 1,
                      !.out = NoOut,
                      !.log = Append(@, "execute_model_definition"),
                      !.up = [status |-> status, headers |-> headers,
                              body |-> body]]
    /\ UNCHANGED <<cache, calls, lost, store, deps, err, crud, route, conn, client>>

\* Lines 395-428.
ReadResponse ==
    /\ req.pc = "respond"
    /\ LET r == read_response(req.up.status, req.up.headers, req.up.body,
                              req.metadata)
       IN  req' = [req EXCEPT
                     !.pc = IF r.returned THEN "done" ELSE "paginate",
                     !.log = Append(@, "response.json"),
                     !.res = r.res, !.body = r.body]
    /\ UNCHANGED <<cache, calls, lost, store, deps, err, crud, route, conn, client>>

\* Lines 432-459.
Paginate ==
    /\ req.pc = "paginate"
    /\ \E code \in IF req.action_name = "GetMany" THEN CmdScripts ELSE {"unread"},
          cursor \in IF req.action_name = "GetMany" THEN CursorPaths ELSE {NoPath} :
          /\ (code \in {"none", "no_compile"} => cursor = NoPath)
          /\ LET r == paginate(req.action_name, code, cursor, req.body)
                 ran == req.action_name = "GetMany" /\ code # "none"
             IN  req' = [req EXCEPT
                           !.pc = IF r.ok THEN "map" ELSE "done",
                           !.inp.cmd_mapping = code, !.inp.cursor = cursor,
                           !.passthrough =
                               passthrough_snapshot(req.is_passthrough, req.body),
                           !.pagination = IF r.ok THEN r.val ELSE NoneV,
                           !.log = @ \o <<"passthrough_snapshot">>
                                     \o (IF ran THEN <<"mapToCrudRequest">> ELSE <<>>),
                           !.res = IF r.ok THEN NoResult ELSE r]
    /\ UNCHANGED <<cache, calls, lost, store, deps, err, crud, route, conn, client>>

\* Lines 461-523. cms.mapping holds both scripts of the CMS: it is not None
\* when its from_common_model ran on the request.
MapResponse ==
    /\ req.pc = "map"
    /\ \E production \in BOOLEAN, path \in ResponsePaths,
          code \in IF ~IsMapped(req.action_name) THEN {"unread"}
                   ELSE IF \E i \in DOMAIN req.log :
                              req.log[i] = "mapFromCommonModel"
                   THEN Scripts
                   ELSE Scripts \cup {"none"} :
          LET body == transform_response_with_path(req.action_name, path,
                                                   req.body, production)
              joined == /\ IsMapped(req.action_name)
                        /\ code \notin {"none", "no_compile"}
                        /\ body.ok /\ body.val # NoneV /\ IsArray(body.val)
          IN
          \E order \in IF joined THEN Orders(Len(body.val.e)) ELSE {<<>>} :
          LET r == map_response(req.action_name, code, body, order)
              ran == /\ IsMapped(req.action_name)
                     /\ code \notin {"none", "no_compile"}
                     /\ body.ok /\ body.val # NoneV
          IN  req' = [req EXCEPT
                        !.pc = IF r.ok THEN "build" ELSE "done",
                        !.inp.production = production, !.inp.path = path,
                        !.inp.cms_mapping = code, !.inp.order = order,
                        !.extracted = body,
                        !.mapped = IF r.ok THEN r.val ELSE NoneV,
                        !.log = @ \o <<"transform_response_with_path">>
                                  \o (IF ran THEN <<"mapToCommonModel">> ELSE <<>>),
                        !.res = IF r.ok THEN NoResult ELSE r]
    /\ UNCHANGED <<cache, calls, lost, store, deps, err, crud, route, conn, client>>

\* Line 525 and build_unified_response. The closure reads the limit of
\* params, the RequestCrud of line 382: the request's query params when no
\* mapFromCrudRequest ran, and what that script returned when it ran.
BuildResponse ==
    /\ req.pc = "build"
    /\ \E query_limit \in IF req.pagination # NoneV /\ IsObject(req.pagination)
                          THEN Limits ELSE {"unread"} :
       \E limit \in mapped_limits(query_limit, req.log) :
          LET r == build_unified_response(req.action_name, req.is_passthrough,
                       req.metadata, req.mapped, req.pagination,
                       req.passthrough, limit, req.up.status, req.up.headers)
          IN  req' = [req EXCEPT
                        !.pc = "done", !.inp.limit = limit,
                        !.inp.query_limit = query_limit,
                        !.metadata = r.val.metadata,
                        !.log = Append(@, "build_unified_response"),
                        !.res = r]
    /\ UNCHANGED <<cache, calls, lost, store, deps, err, crud, route, conn, client>>

InitUnified ==
    /\ cache = [cid \in CacheIds |-> GenericCache_new]
    /\ calls = [c \in Calls |-> IdleCall]
    /\ lost = {}
    /\ store = [k \in Keys |-> "v1"]
    /\ deps = IdleDeps
    /\ req = IdleReq
    /\ err = IdleErr
    /\ crud = IdleCrud
    /\ route = IdleRoute
    /\ conn = IdleConn
    /\ client = IdleClient

----------------------------------------------------------------------------
(* The life of one error value: built, then given meta or coerced.          *)

Messages == {"m1", "m2"}
Metas == {"meta1", "meta2"}

\* Subtypes as callers pass them: none, "ab", "aB", "A b".
RawSubtypes ==
    {NoSubtype, SomeSubtype(<<"a", "b">>), SomeSubtype(<<"a", "B">>),
     SomeSubtype(<<"A", " ", "b">>)}

\* The statuses from_err_code names, and one more of each class.
ErrStatuses ==
    {400, 409, 403, 500, 405, 404, 501, 424, 503, 429, 401, 422, 418, 502, 200}

NewError(tier, kind, message, subtype) ==
    /\ err.pc = "idle"
    /\ err' = [IdleErr EXCEPT
                 !.pc = "built", !.by = "constructor", !.raw = subtype,
                 !.e = new_error(tier, kind, message, subtype)]
    /\ UNCHANGED <<cache, calls, lost, store, deps, req, crud, route, conn, client>>

FromErrCode(status, message, subtype) ==
    /\ err.pc = "idle"
    /\ err' = [IdleErr EXCEPT
                 !.pc = "built", !.by = "from_err_code", !.raw = subtype,
                 !.e = from_err_code(status, message, subtype)]
    /\ UNCHANGED <<cache, calls, lost, store, deps, req, crud, route, conn, client>>

SetMeta(meta) ==
    /\ err.pc = "built"
    /\ err.metas < MaxMetas
    /\ err' = [err EXCEPT !.prev = err.e, !.op = "set_meta",
                          !.metas = @ + 1, !.e = set_meta(err.e, meta)]
    /\ UNCHANGED <<cache, calls, lost, store, deps, req, crud, route, conn, client>>

IntoApplication ==
    /\ err.pc = "built"
    /\ err.e.tier = "Internal"
    /\ err' = [err EXCEPT !.prev = err.e, !.op = "into",
                          !.e = as_application(err.e)]
    /\ UNCHANGED <<cache, calls, lost, store, deps, req, crud, route, conn, client>>

InitError == InitUnified

NextError ==
    \/ \E kind \in InternalKinds, message \in Messages, subtype \in RawSubtypes :
          NewError("Internal", kind, message, subtype)
    \/ \E kind \in ApplicationKinds, message \in Messages, subtype \in RawSubtypes :
          NewError("Application", kind, message, subtype)
    \/ \E status \in ErrStatuses, message \in Messages, subtype \in RawSubtypes :
          FromErrCode(status, message, subtype)
    \/ \E meta \in Metas : SetMeta(meta)
    \/ IntoApplication

SpecError == InitError /\ [][NextError]_vars

----------------------------------------------------------------------------
(* Preparing the CRUD payload: prepare_crud_mapping (unified.rs).           *)
(* A string is a sequence of atoms: a separator character, or a name that   *)
(* holds no separator.                                                      *)

PASSTHROUGH_PARAMS == <<"passthroughForward">>
PASSTHROUGH_HEADERS == <<"x-pica-passthrough-headers">>

\* A header value that is not visible ASCII: HeaderValue::to_str fails on it.
OpaqueValue == <<"\\xFF">>

NoString == [some |-> FALSE, s |-> <<>>]
SomeString(s) == [some |-> TRUE, s |-> s]

\* Option<String>::unwrap_or_default
unwrap_or_default(o) == IF o.some THEN o.s ELSE <<>>

RECURSIVE split_from(_, _, _)
split_from(s, sep, cur) ==
    IF s = <<>> THEN <<cur>>
    ELSE IF Head(s) = sep
         THEN <<cur>> \o split_from(Tail(s), sep, <<>>)
         ELSE split_from(Tail(s), sep, Append(cur, Head(s)))

\* str::split: the pieces between separators, empty pieces included.
split(s, sep) == split_from(s, sep, <<>>)

\* str::split_once: the parts before and after the first separator.
split_once(s, sep) ==
    IF \E i \in 1..Len(s) : s[i] = sep
    THEN LET i == CHOOSE i \in 1..Len(s) :
                     s[i] = sep /\ \A j \in 1..(i - 1) : s[j] # sep
         IN  [some |-> TRUE, a |-> SubSeq(s, 1, i - 1),
              b |-> SubSeq(s, i + 1, Len(s))]
    ELSE [some |-> FALSE, a |-> <<>>, b |-> <<>>]

\* HashMap::new
HashMap_new == [k \in {} |-> <<>>]

RECURSIVE collect_hash_map(_, _)
\* Iterator::collect::<HashMap<_, _>>: a later pair replaces an earlier one
\* of the same key.
collect_hash_map(pairs, map) ==
    IF pairs = <<>> THEN map
    ELSE collect_hash_map(Tail(pairs),
             extend(map, [k \in {Head(pairs)[1]} |-> Head(pairs)[2]]))

\* The pairs of a k=v list: pieces without '=' are dropped (filter_map).
RECURSIVE key_value_pairs(_)
key_value_pairs(pieces) ==
    IF pieces = <<>> THEN <<>>
    ELSE LET p == split_once(Head(pieces), "=")
         IN  (IF p.some THEN << <<p.a, p.b>> >> ELSE <<>>)
                 \o key_value_pairs(Tail(pieces))

\* HeaderName::from_str: fails on the empty string and on a character that
\* is not a token character; normalises the name to lower case.
NameAtoms == {"x-pica-passthrough-headers", "k", "K"}
HeaderName_from_str(a) ==
    IF a # <<>> /\ \A i \in 1..Len(a) : a[i] \in NameAtoms
    THEN SomeString([i \in 1..Len(a) |-> IF a[i] = "K" THEN "k" ELSE a[i]])
    ELSE NoString

\* HeaderValue::to_str: fails unless every byte is visible ASCII.
to_str(v) == IF v = OpaqueValue THEN NoString ELSE SomeString(v)

\* HeaderValue::try_from(&str): fails on a control character only.
HeaderValue_try_from(b) ==
    IF \A i \in 1..Len(b) : b[i] # "\\n" THEN SomeString(b) ELSE NoString

\* The valid (name, value) pairs of a k=v;k=v list (second filter_map).
RECURSIVE header_pairs(_)
header_pairs(pairs) ==
    IF pairs = <<>> THEN <<>>
    ELSE LET a == HeaderName_from_str(Head(pairs)[1])
             b == HeaderValue_try_from(Head(pairs)[2])
         IN  (IF a.some /\ b.some THEN << <<a.s, b.s>> >> ELSE <<>>)
                 \o header_pairs(Tail(pairs))

\* RequestCrud: headers, query_params, path_params (an optional map), body.
RequestCrud(headers, query_params, path_params, body) ==
    [headers |-> headers, query_params |-> query_params,
     path_params |-> path_params, body |-> body]

without(map, key) == [k \in DOMAIN map \ {key} |-> map[k]]

\* RequestCrud::remove_query_params: the payload without the key, and the
\* value the key had.
remove_query_params(params, key) ==
    [params |-> [params EXCEPT !.query_params = without(@, key)],
     removed |-> IF key \in DOMAIN params.query_params
                 THEN SomeString(params.query_params[key]) ELSE NoString]

\* RequestCrud::extend_query_params
extend_query_params(params, other) ==
    [params EXCEPT !.query_params = extend(@, other)]

\* RequestCrud::remove_header
remove_header(params, key) ==
    [params |-> [params EXCEPT !.headers = without(@, key)],
     removed |-> IF key \in DOMAIN params.headers
                 THEN SomeString(params.headers[key]) ELSE NoString]

\* RequestCrud::extend_header
extend_header(params, other) ==
    [params EXCEPT !.headers = extend(@, other)]

\* Option<HashMap<String, String>> of path_params.
NoPathParams == [some |-> FALSE, map |-> HashMap_new]

\* RequestCrud::add_path_param: sets the key when there is a value.
add_path_param(params, key, value) ==
    IF value = None THEN params
    ELSE [params EXCEPT !.path_params =
             [some |-> TRUE, map |-> extend(@.map, [k \in {key} |-> value])]]

prepare_crud_mapping(params, id) ==
    LET q == remove_query_params(params, PASSTHROUGH_PARAMS)
        custom_query_params ==
            collect_hash_map(
                key_value_pairs(split(unwrap_or_default(q.removed), "&")),
                HashMap_new)
        params1 == extend_query_params(q.params, custom_query_params)
        h == remove_header(params1, PASSTHROUGH_HEADERS)
        s == IF h.removed.some THEN to_str(h.removed.s) ELSE NoString
        custom_headers ==
            IF h.removed.some
            THEN collect_hash_map(
                     header_pairs(key_value_pairs(split(s.s, ";"))),
                     HashMap_new)
            ELSE HashMap_new
    IN  IF h.removed.some /\ ~s.some
        THEN Err(InternalError("InvalidArgument", "failed to convert header to a str"))
        ELSE Ok(add_path_param(extend_header(h.params, custom_headers),
                               ID_KEY, id))

\* The strings of at most n atoms of an alphabet.
Strings(alphabet, n) == UNION {[1..m -> alphabet] : m \in 0..n}

QueryValues == Strings({"passthroughForward", "k", "=", "&"}, MaxLen)
HeaderValues ==
    Strings({"x-pica-passthrough-headers", "K", "=", ";"}, MaxLen)
        \cup {OpaqueValue}

\* The query params of a request: k=v or nothing, with or without a
\* passthroughForward value.
QueryParams ==
    {HashMap_new, [k \in {<<"k">>} |-> <<"v">>]}

Headers == {HashMap_new, [k \in {<<"k">>} |-> <<"v">>]}

ActionIds == {None, "id1"}

\* The (passthroughForward, x-pica-passthrough-headers) values of a request:
\* any value of one with a few values of the other.
Passthroughs ==
    (({NoString} \cup {SomeString(v) : v \in QueryValues})
        \X {NoString, SomeString(<<"K", "=", "K">>), SomeString(OpaqueValue)})
    \cup
    ({NoString, SomeString(<<"k", "=", "k">>)}
        \X ({NoString} \cup {SomeString(v) : v \in HeaderValues}))

\* prepare_crud_mapping on a request.
PrepareCrud ==
    /\ crud.pc = "idle"
    /\ \E query \in QueryParams, headers \in Headers, id \in ActionIds,
          fp \in Passthroughs :
          LET forward == fp[1]
              passthrough == fp[2]
              q == IF forward.some
                   THEN extend(query, [k \in {PASSTHROUGH_PARAMS} |-> forward.s])
                   ELSE query
              h == IF passthrough.some
                   THEN extend(headers, [k \in {PASSTHROUGH_HEADERS} |-> passthrough.s])
                   ELSE headers
              r == RequestCrud(h, q, NoPathParams, "body")
          IN  crud' = [pc |-> "once", r |-> r, id |-> id,
                       once |-> prepare_crud_mapping(r, id), twice |-> NoResult]
    /\ UNCHANGED <<cache, calls, lost, store, deps, req, err, route, conn, client>>

\* prepare_crud_mapping on the payload it returned.
PrepareCrudAgain ==
    /\ crud.pc = "once"
    /\ crud.once.ok
    /\ crud' = [crud EXCEPT !.pc = "twice",
                   !.twice = prepare_crud_mapping(crud.once.val, crud.id)]
    /\ UNCHANGED <<cache, calls, lost, store, deps, req, err, route, conn, client>>

InitCrud == InitUnified

NextCrud ==
    \/ PrepareCrud
    \/ PrepareCrudAgain

SpecCrud == InitCrud /\ [][NextCrud]_vars

----------------------------------------------------------------------------
(* The request half of UnifiedDestination::perform_unified_request (lines   *)
(* 341-387): the secret, the body and the params the upstream call is given. *)

\* fn insert_action_id(secret: Value, id: Option<&Arc<str>>) -> Value
insert_action_id(secret, id) ==
    IF IsObject(secret)
    THEN IF id # None
         THEN JObj(map_insert(secret.f, ID_KEY, JStr(id)))
         ELSE secret
    ELSE secret

\* fn extend_secret(mut secret: Value, get_path_params: Option<..>) -> Value
extend_secret(secret, get_path_params) ==
    IF IsObject(secret) /\ get_path_params.some
    THEN JObj(extend(secret.f,
                [k \in DOMAIN get_path_params.map |->
                    JStr(get_path_params.map[k])]))
    ELSE secret

\* str::strip_prefix
strip_prefix(s, prefix) ==
    IF Len(s) >= Len(prefix) /\ SubSeq(s, 1, Len(prefix)) = prefix
    THEN SomeString(SubSeq(s, Len(prefix) + 1, Len(s)))
    ELSE NoString

BODY_PREFIX == <<"$", ".", "body", ".">>

\* fn insert_body_into_path_object(config, body): request_object is
\* paths.request.object of the CMD, when the CMD has one.
insert_body_into_path_object(request_object, body) ==
    IF request_object.some
    THEN LET path == strip_prefix(request_object.s, BODY_PREFIX)
         IN  IF path.some
             THEN IF body # NoneV THEN JObj([k \in {path.s} |-> body])
                  ELSE NoneV
             ELSE body
    ELSE body

\* RequestCrud::extend_body: the payload with its body replaced.
extend_body(params, body) == [params EXCEPT !.body = body]

\* RequestCrud::set_body
set_body(params, body) == [params EXCEPT !.body = body]

\* The mapFromCrudRequest code of a CMD: "none" when config.mapping is None,
\* "no_code" when its from_common_model is None, else a script by what it
\* does to the payload.
CrudScripts ==
    {"none", "no_code", "identity", "drop_path_params", "no_compile", "fails"}

\* jsruntime.run(&payload, &namespace) of mapFromCrudRequest.
run_map_from_crud_request(cmd_code, payload) ==
    CASE cmd_code = "identity" -> Ok(payload)
      [] cmd_code = "drop_path_params" ->
            Ok([payload EXCEPT !.path_params = NoPathParams])
      [] cmd_code = "fails" -> Err(ScriptError)

\* Mutant of request_steps: the secret is extended with the path params
\* before the CRUD payload is prepared and mapped.
request_steps_secret_first(cms_ran, prepared, crud_ran, mapped) ==
    <<"insert_action_id">>
        \o (IF cms_ran THEN <<"mapFromCommonModel">> ELSE <<>>)
        \o (IF mapped THEN <<"extend_secret">> ELSE <<>>)
        \o (IF prepared THEN <<"prepare_crud_mapping">> ELSE <<>>)
        \o (IF crud_ran THEN <<"mapFromCrudRequest">> ELSE <<>>)
        \o (IF mapped THEN <<"insert_body_into_path_object">> ELSE <<>>)

\* The steps of lines 341-385 a dispatch went through, in the order of the
\* code: line 341, 350-358, 370, 374, 383, 385.
request_steps(cms_ran, prepared, crud_ran, mapped) ==
    <<"insert_action_id">>
        \o (IF cms_ran THEN <<"mapFromCommonModel">> ELSE <<>>)
        \o (IF prepared THEN <<"prepare_crud_mapping">> ELSE <<>>)
        \o (IF crud_ran THEN <<"mapFromCrudRequest">> ELSE <<>>)
        \o (IF mapped THEN <<"extend_secret", "insert_body_into_path_object">>
            ELSE <<>>)

\* Lines 341-386: the secret, the params and the steps of the request, or
\* the error of the step that failed. cms_code is "none" when cms.mapping
\* is None.
transform_request(secret, id, params, cms_code, cmd_code, request_object) ==
    LET secret1 == insert_action_id(secret, id)
        cms_some == cms_code # "none" /\ params.body # NoneV
        cms_created == jsruntime_create(cms_code)
        cms_out == jsruntime_run(cms_code, params.body)
        cms_ran == cms_some /\ cms_created.ok
        body == IF cms_some THEN drop_nulls(cms_out.val) ELSE params.body
        scripted == cmd_code \notin {"none", "no_code"}
        crud_created == jsruntime_create(cmd_code)
        payload == prepare_crud_mapping(params, id)
        prepared == scripted /\ crud_created.ok
        crud_out == run_map_from_crud_request(cmd_code, payload.val)
        crud_ran == prepared /\ payload.ok
        params1 == IF scripted THEN extend_body(crud_out.val, body)
                   ELSE params
        secret2 == extend_secret(secret1, params1.path_params)
        params2 == set_body(params1,
                       insert_body_into_path_object(request_object,
                                                    params1.body))
        failed(e, p, c) ==
            [res |-> e, steps |-> request_steps(cms_ran, p, c, FALSE),
             out |-> NoOut]
    IN  IF cms_some /\ ~cms_created.ok THEN failed(cms_created, FALSE, FALSE)
        ELSE IF cms_some /\ ~cms_out.ok THEN failed(cms_out, FALSE, FALSE)
        ELSE IF scripted /\ ~crud_created.ok
        THEN failed(crud_created, FALSE, FALSE)
        ELSE IF scripted /\ ~payload.ok THEN failed(payload, TRUE, FALSE)
        ELSE IF scripted /\ ~crud_out.ok THEN failed(crud_out, TRUE, TRUE)
        ELSE [res |-> NoResult,
              steps |-> request_steps(cms_ran, prepared, crud_ran, TRUE),
              out |-> [secret |-> secret2, body |-> params2.body]]

\* The secrets of the model, as Secret::as_value gives them: an object, or
\* a value that is not an object.
SecretValues == {JObj([token |-> JStr("t")]), JStr("raw")}

\* The bodies of a request.
RequestBodies == {NoneV, Obj1, Obj2}

RequestObjects ==
    {NoString, SomeString(BODY_PREFIX \o <<"data">>),
     SomeString(<<"$", ".", "data">>)}

\* The headers of a request: none, or an x-pica-passthrough-headers value.
RequestHeaders ==
    {HashMap_new,
     [k \in {PASSTHROUGH_HEADERS} |-> <<"K", "=", "K">>],
     [k \in {PASSTHROUGH_HEADERS} |-> OpaqueValue]}

\* Lines 341-387.
TransformRequest ==
    /\ req.pc = "request"
    /\ \E secret \in SecretValues, id \in ActionIds, body \in RequestBodies,
          headers \in RequestHeaders, cms_code \in Scripts \cup {"none"},
          cmd_code \in CrudScripts, request_object \in RequestObjects :
          LET params == RequestCrud(headers, HashMap_new, NoPathParams, body)
              r == transform_request(secret, id, params, cms_code, cmd_code,
                                     request_object)
          IN  req' = [req EXCEPT
                        !.pc = IF r.res = NoResult THEN "call" ELSE "done",
                        !.out = r.out,
                        !.log = @ \o r.steps,
                        !.res = r.res]
    /\ UNCHANGED <<cache, calls, lost, store, deps, err, crud, route, conn, client>>

NextUnified ==
    \/ \E action_name \in CrudActions, is_passthrough \in BOOLEAN :
          Dispatch(action_name, is_passthrough)
    \/ TransformRequest
    \/ HttpCall
    \/ ReadResponse
    \/ Paginate
    \/ MapResponse
    \/ BuildResponse

SpecUnified == InitUnified /\ [][NextUnified]_vars

----------------------------------------------------------------------------
(* Passthrough dispatch: UnifiedDestination::get_connection_model_definition *)
(* and dispatch_destination_request (unified.rs), followed over several     *)
(* dispatches that share the caches; a unified dispatch takes part with its *)
(* dependencies and its secret.                                             *)
(* A route is a sequence of segments; a segment that starts with ':' is a   *)
(* wildcard.                                                                *)

RouteTemplates ==
    {<<"users", ":id">>, <<"users", "me">>, <<"orgs", "{{token}}">>}
ConcretePaths == {<<"users", "me">>, <<"users", "42">>, <<"teams">>}

NoRoute == [some |-> FALSE, route |-> <<>>]
SomeRoute(r) == [some |-> TRUE, route |-> r]

IsWildcard(segment) == segment = ":id"

route_matches(template, path) ==
    /\ Len(template) = Len(path)
    /\ \A i \in 1..Len(template) :
          IsWildcard(template[i]) \/ template[i] = path[i]

wildcards(template) ==
    Cardinality({i \in 1..Len(template) : IsWildcard(template[i])})

\* helper::match_route: the candidate that matches the path with the fewest
\* wildcards, the first such candidate on a tie.
match_route(path, routes) ==
    LET cands == {i \in 1..Len(routes) : route_matches(routes[i], path)}
    IN  IF cands = {} THEN NoRoute
        ELSE LET best == CHOOSE i \in cands : \A j \in cands :
                             \/ wildcards(routes[i]) < wildcards(routes[j])
                             \/ /\ wildcards(routes[i]) = wildcards(routes[j])
                                /\ i <= j
             IN  SomeRoute(routes[best])

\* helper::template_route: the template with its wildcards replaced by the
\* segments of the concrete path.
template_route(template, path) ==
    [i \in 1..Len(template) |->
        IF IsWildcard(template[i]) /\ i <= Len(path) THEN path[i]
        ELSE template[i]]

CmdIds == <<"c1", "c2", "c3", "c4">>

\* The CMDs the store holds for the platform and method.
CmdStores ==
    UNION {{[i \in 1..n |-> Cmd(CmdIds[i], f[i][1], f[i][2])] :
               f \in [1..n -> RouteTemplates \X BOOLEAN]} : n \in 0..MaxCmds}

IsSupported(c) == c.supported

\* connection_model_definitions_store.get_many with the filter
\* {connectionPlatform, action, supported: true}.
get_many(cmds, up) ==
    IF up THEN Ok(SelectSeq(cmds, IsSupported)) ELSE Err(StoreError)

\* cmd_cache_id_key.get_or_insert_with_filter by {_id: id}.
get_by_id(cmds, id, up) ==
    IF ~up THEN Err(StoreError)
    ELSE IF \E i \in 1..Len(cmds) : cmds[i].id = id
         THEN Ok(cmds[CHOOSE i \in 1..Len(cmds) : cmds[i].id = id])
         ELSE Err(ApplicationError("NotFound", "Value not found"))

\* get_connection_model_definition for Action::Passthrough {method, path, id}.
get_connection_model_definition(cmds, path, id, up) ==
    IF id # None THEN get_by_id(cmds, id, up)
    ELSE LET found == get_many(cmds, up)
         IN  IF ~found.ok THEN Err(found.err)
             ELSE LET defs == found.val
                      routes == [i \in 1..Len(defs) |-> defs[i].path]
                      matched_route == match_route(path, routes)
                      IsMatched(c) == matched_route.some /\ c.path = matched_route.route
                      kept == SelectSeq(defs, IsMatched)
                  IN  IF Len(kept) > 1
                      THEN Err(InternalError("InvalidArgument",
                               "Multiple connection model definitions found for this path"))
                      ELSE IF kept = <<>> THEN Ok(NoCmd) ELSE Ok(kept[1])

\* let config = match self.get_connection_model_definition(..).await {..}?
destination_config(found) ==
    IF found.ok /\ found.val # NoCmd THEN Ok(found.val)
    ELSE IF found.ok
         THEN Err(InternalError("KeyNotFound", "ConnectionModelDefinition"))
         ELSE Err(InternalError("ConnectionError",
                                "Failed to get connection model definition"))

\* The secret of dispatch_destination_request, as the closure given to
\* secrets_cache.get_or_insert_with_fn builds it.
destination_secret(got) ==
    LET r == transpose(Some(got))
    IN  IF r.ok /\ r.val # None THEN Ok(r.val)
        ELSE IF r.ok THEN Err(InternalError("KeyNotFound", "Secrets"))
        ELSE Err(InternalError("ConnectionError", "Failed to get secret"))

\* Secret::as_value: the JSON value parsed from the secret the vault holds,
\* a fresh value on every call.
as_value(secret) == JObj([token |-> JStr(secret)])

\* Handlebars::render_template on a segment of the serialised CMD: the field
\* of the context the template names, nothing when the context lacks it.
render_segment(segment, secret) ==
    IF segment = "{{token}}"
    THEN IF IsObject(secret) /\ contains_key(secret.f, "token")
         THEN secret.f["token"].s ELSE ""
    ELSE segment

\* execute_model_definition, lines 258-266: the CMD is serialised, rendered
\* with the secret as context and deserialised into a new CMD.
render_template(config, secret) ==
    [config EXCEPT !.path = [i \in DOMAIN @ |-> render_segment(@[i], secret)]]

\* A variant of templated_config that rewrites the path of the resolved CMD
\* itself.
templated_config_in_place(config, path) ==
    LET rewritten == [config EXCEPT !.path = template_route(@, path)]
    IN  [config |-> rewritten, templated |-> rewritten]

\* let templated_config = match &destination.action {..} (lines 604-614) for
\* Action::Passthrough: config_clone, a clone of the resolved CMD, gets the
\* templated path; config is left as it was resolved.
templated_config(config, path) ==
    [config |-> config,
     templated |-> [config EXCEPT !.path = template_route(@, path)]]

\* GenericCache::get_or_insert_with_filter on the CMD-by-id cache: the entry
\* on a hit, else the CMD of the store, which is inserted when found.
get_or_insert_by_id(cmd_cache, cmds, id, up) ==
    IF id \in DOMAIN cmd_cache
    THEN [res |-> Ok(cmd_cache[id]), cache |-> cmd_cache, hit |-> TRUE]
    ELSE LET found == get_by_id(cmds, id, up)
         IN  [res |-> found,
              cache |-> IF found.ok
                        THEN extend(cmd_cache, [k \in {id} |-> found.val])
                        ELSE cmd_cache,
              hit |-> FALSE]

\* GenericCache::get_or_insert_with_fn on an entry of a cache that holds at
\* most this one key: the entry on a hit, else what the producer gave, which
\* is inserted when it is Ok. calls counts the runs of the producer.
get_or_insert_with_fn(entry, produced) ==
    IF entry.some
    THEN [res |-> Ok(entry.val), entry |-> entry, calls |-> 0]
    ELSE [res |-> produced,
          entry |-> IF produced.ok THEN Cached(produced.val) ELSE Absent,
          calls |-> 1]

\* What a dispatch leaves behind when it has returned: the store and the
\* caches stay, its locals are gone.
returned(r) ==
    [IdleRoute EXCEPT !.cmds = r.cmds, !.round = r.round,
                      !.cmd_cache = r.cmd_cache,
                      !.definitions_cache = r.definitions_cache,
                      !.secrets_cache = r.secrets_cache]

\* dispatch_destination_request is called for a passthrough destination; the
\* connection is given or looked up by its key.
DispatchDestination ==
    /\ route.pc = "idle"
    /\ route.round < MaxRounds
    /\ \E cmds \in IF route.round = 0 THEN CmdStores ELSE {route.cmds},
          path \in ConcretePaths,
          id \in {None, "c1", "c4"}, connection \in {"given", "found", "missing"} :
          route' = IF connection = "missing"
                   THEN [route EXCEPT
                           !.kind = "passthrough", !.round = @ + 1,
                           !.pc = "returned", !.cmds = cmds, !.path = path,
                           !.id = id, !.connection = connection,
                           !.res = Err(ApplicationError("NotFound", "Value not found"))]
                   ELSE [route EXCEPT
                           !.kind = "passthrough", !.round = @ + 1,
                           !.pc = "definition", !.cmds = cmds, !.path = path,
                           !.id = id, !.connection = connection]
    /\ UNCHANGED <<cache, calls, lost, store, deps, req, err, crud, conn, client>>

\* A variant of supported_config that lets every resolved CMD through.
supported_config_unchecked(config) == Ok(config)

\* if !config.supported { return Err(ApplicationError::not_found(..)) }
supported_config(config) ==
    IF ~config.supported
    THEN Err(ApplicationError("NotFound",
                              "Supported Connection Model Definition"))
    ELSE Ok(config)

\* The CMD is resolved, by id through the CMD-by-id cache or by route, and
\* checked to be supported.
ResolveDefinition ==
    /\ route.pc = "definition"
    /\ \E up \in BOOLEAN :
          LET cached == get_or_insert_by_id(route.cmd_cache, route.cmds,
                                            route.id, up)
              found == IF route.id # None THEN cached.res
                       ELSE get_connection_model_definition(route.cmds,
                                route.path, route.id, up)
              config == destination_config(found)
              after == [route EXCEPT
                          !.up = up,
                          !.hit = route.id # None /\ cached.hit,
                          !.cmd_cache = IF route.id # None THEN cached.cache
                                        ELSE @]
          IN  route' =
                IF ~config.ok
                THEN [after EXCEPT !.pc = "returned", !.res = Err(config.err)]
                ELSE IF ~supported_config(config.val).ok
                THEN [after EXCEPT
                        !.pc = "returned", !.config = config.val,
                        !.res = supported_config(config.val)]
                ELSE [after EXCEPT !.pc = "secret", !.config = config.val]
    /\ UNCHANGED <<cache, calls, lost, store, deps, req, err, crud, conn, client>>

\* The secret of the connection is read from the secrets cache or fetched
\* from the secrets client.
ResolveSecret ==
    /\ route.pc = "secret"
    /\ \E e \in DOMAIN SecretsGet :
          LET got == get_or_insert_with_fn(route.secrets_cache,
                         destination_secret(SecretsGet[e]))
              after == [route EXCEPT !.secrets_cache = got.entry,
                                     !.secrets_calls = @ + got.calls]
          IN  route' = IF got.res.ok
                       THEN [after EXCEPT !.pc = "execute",
                                          !.secret = got.res.val]
                       ELSE [after EXCEPT !.pc = "returned",
                                          !.res = Err(got.res.err)]
    /\ UNCHANGED <<cache, calls, lost, store, deps, req, err, crud, conn, client>>

\* perform_unified_request is called for a unified destination (lines
\* 309-330).
DispatchUnified ==
    /\ route.pc = "idle"
    /\ route.round < MaxRounds
    /\ \E cmds \in IF route.round = 0 THEN CmdStores ELSE {route.cmds},
          id \in ActionIds :
          route' = [route EXCEPT
                      !.kind = "unified", !.pc = "dependencies",
                      !.round = @ + 1,
                      !.cmds = cmds, !.action_id = id]
    /\ UNCHANGED <<cache, calls, lost, store, deps, req, err, crud, conn, client>>

\* The producer of config_fut on the CMD find_one gave.
dependency_config(found) ==
    IF found.ok /\ found.val # NoCmd THEN Ok(found.val)
    ELSE IF found.ok THEN Err(InternalError("KeyNotFound", "model definition"))
    ELSE Err(InternalError("ConnectionError",
                           "Failed to get connection model definition"))

\* get_dependencies (lines 625-699): the three lookups run to their end, each
\* through its cache, and the first error in the order config, secret,
\* schema is returned.
ResolveDependencies ==
    /\ route.pc = "dependencies"
    /\ \E up \in BOOLEAN, e \in DOMAIN SecretsGet, schema \in BOOLEAN :
          LET found == IF ~up THEN Err(StoreError)
                       ELSE IF route.cmds = <<>> THEN Ok(NoCmd)
                       ELSE Ok(route.cmds[1])
              c == get_or_insert_with_fn(route.definitions_cache,
                                         dependency_config(found))
              s == get_or_insert_with_fn(route.secrets_cache,
                                         secret_producer(SecretsGet[e]))
              m == IF schema THEN Ok("v1")
                   ELSE Err(ApplicationError("NotFound", "Value not found"))
              res == join_result(c.res, s.res, m)
              after == [route EXCEPT
                          !.up = up,
                          !.definitions_cache = c.entry,
                          !.secrets_cache = s.entry,
                          !.secrets_calls = @ + s.calls]
          IN  route' = IF res.ok
                       THEN [after EXCEPT !.pc = "request",
                                          !.config = c.res.val,
                                          !.secret = s.res.val]
                       ELSE [after EXCEPT !.pc = "returned",
                                          !.res = Err(res.err)]
    /\ UNCHANGED <<cache, calls, lost, store, deps, req, err, crud, conn, client>>

\* Lines 341 and 383: the value of the secret gets the action id and the
\* path params of the mapped request.
RequestSecret ==
    /\ route.pc = "request"
    /\ \E mapped \in BOOLEAN :
          LET params == RequestCrud(HashMap_new, HashMap_new, NoPathParams,
                                    NoneV)
              prepared == IF mapped
                          THEN add_path_param(params, ID_KEY, route.action_id)
                          ELSE params
          IN  route' = [route EXCEPT
                          !.pc = "execute",
                          !.value = extend_secret(
                              insert_action_id(as_value(route.secret),
                                               route.action_id),
                              prepared.path_params)]
    /\ UNCHANGED <<cache, calls, lost, store, deps, req, err, crud, conn, client>>

\* The route is templated (passthrough) and execute_model_definition runs:
\* the config is rendered with the secret, then the upstream call is made.
ExecuteDefinition ==
    /\ route.pc = "execute"
    /\ \E rendered \in BOOLEAN, status \in {200, 404, 0} :
          LET t == IF route.kind = "passthrough"
                   THEN templated_config(route.config, route.path)
                   ELSE [config |-> route.config, templated |-> route.config]
              secret == IF route.kind = "passthrough"
                        THEN as_value(route.secret) ELSE route.value
              config == render_template(t.templated, secret)
              after == [route EXCEPT !.config = t.config,
                                     !.templated = t.templated,
                                     !.value = secret]
          IN  route' =
                IF ~rendered
                THEN [after EXCEPT
                        !.pc = "returned",
                        !.res = Err(InternalError("InvalidArgument",
                                                  "Failed to render template"))]
                ELSE [after EXCEPT
                        !.pc = "returned",
                        !.rendered = config,
                        !.called = config.path,
                        !.http_calls = @ + 1,
                        !.res = IF status = 0
                                THEN Err(InternalError("IOErr", "Failed to send request"))
                                ELSE Ok(status)]
    /\ UNCHANGED <<cache, calls, lost, store, deps, req, err, crud, conn, client>>

\* The dispatch is over; the caches stay for the next one.
RouteReturn ==
    /\ route.pc = "returned"
    /\ route.round < MaxRounds
    /\ route' = returned(route)
    /\ UNCHANGED <<cache, calls, lost, store, deps, req, err, crud, conn, client>>

InitRoute == InitUnified

NextRoute ==
    \/ DispatchDestination
    \/ ResolveDefinition
    \/ ResolveSecret
    \/ DispatchUnified
    \/ ResolveDependencies
    \/ RequestSecret
    \/ ExecuteDefinition
    \/ RouteReturn

SpecRoute == InitRoute /\ [][NextRoute]_vars

----------------------------------------------------------------------------
(* Creating a connection: create_connection (api/src/logic/connection.rs).  *)
(* A text is a sequence of atoms, each one character, followed by pad       *)
(* characters 'x'; the uuid is one atom.                                    *)

Uuids == {Text(<<"u1">>, 0), Text(<<"u2">>, 0)}

\* Identities: short texts over a letter, a space, a colon and a two-byte
\* letter, alone or followed by a long run of 'x'; and the text of a uuid.
Identities ==
    {Text(s, pad) : s \in Strings({"a", " ", ":", "é"}, MaxIdLen),
                    pad \in {0, IDENTITY_MAX - 2, IDENTITY_MAX - 1, IDENTITY_MAX}}
        \cup {Text(<<"u1">>, 0)}

Groups == {Text(<<"g", ":", "h">>, 0), Text(<<"u1">>, 0)}

\* The ids the secrets service gives to new secrets.
SecretIds == {"s1", "s2"}

\* An error of the k8s client.
K8sError(message) == InternalError("UnknownError", message)

\* create_connection up to the lookup of the connection definition.
CreateConnection ==
    /\ conn.pc = "idle"
    /\ \E identity \in {NoText} \cup {SomeText(t) : t \in Identities},
          group \in {NoText} \cup {SomeText(t) : t \in Groups} :
          LET payload == CreateConnectionPayload(identity, group)
          IN  conn' =
                IF ~validate(payload)
                THEN [IdleConn EXCEPT
                        !.pc = "returned", !.payload = payload,
                        !.res = Err(ApplicationError("NotFound", "Invalid payload"))]
                ELSE IF identity_too_long(payload)
                THEN [IdleConn EXCEPT
                        !.pc = "returned", !.payload = payload,
                        !.res = Err(ApplicationError("BadRequest",
                                    "Identity must not exceed 128 characters"))]
                ELSE [IdleConn EXCEPT !.pc = "definition", !.payload = payload]
    /\ UNCHANGED <<cache, calls, lost, store, deps, req, err, crud, route, client>>

\* The connection definition is read and the key is made.
GetDefinition ==
    /\ conn.pc = "definition"
    /\ \E found \in {"Api", "DatabaseSql", "missing", "failed"}, uuid \in Uuids :
          LET group == unwrap_or_else(conn.payload.group, uuid)
              identity == unwrap_or_else(conn.payload.identity, group)
              looked == [conn EXCEPT !.effects.lookups = @ + 1]
          IN  conn' =
                IF found = "missing"
                THEN [looked EXCEPT
                        !.pc = "returned",
                        !.res = Err(ApplicationError("NotFound",
                                    "Connection definition not found"))]
                ELSE IF found = "failed"
                THEN [looked EXCEPT !.pc = "returned", !.res = Err(StoreError)]
                ELSE [looked EXCEPT
                        !.pc = "throughput", !.type = found, !.uuid = uuid,
                        !.group = group, !.identity = identity,
                        !.key_suffix = key_suffix(uuid, identity)]
    /\ UNCHANGED <<cache, calls, lost, store, deps, req, err, crud, route, client>>

\* get_client_throughput, then the auth form data is serialised.
GetThroughput ==
    /\ conn.pc = "throughput"
    /\ \E ok \in BOOLEAN :
          conn' = IF ok THEN [conn EXCEPT !.pc = "provision"]
                  ELSE [conn EXCEPT !.pc = "returned", !.res = Err(StoreError)]
    /\ UNCHANGED <<cache, calls, lost, store, deps, req, err, crud, route, client>>

\* generate_k8s_specs_and_secret, and for a SQL database the pod is
\* provisioned by k8s_client.coordinator.
Provision ==
    /\ conn.pc = "provision"
    /\ \E specs \in BOOLEAN, coordinated \in BOOLEAN :
          conn' =
            IF ~specs
            THEN [conn EXCEPT
                    !.pc = "returned",
                    !.res = Err(InternalError("SerializeError",
                                "Unable to initialize postgres config"))]
            ELSE IF conn.type # "DatabaseSql"
            THEN [conn EXCEPT !.pc = "test", !.log = Append(@, "provision")]
            ELSE IF coordinated
            THEN [conn EXCEPT
                    !.pc = "test", !.effects.pods = @ + 1,
                    !.effects.service = TRUE, !.effects.deployment = TRUE,
                    !.log = Append(@, "provision")]
            ELSE [conn EXCEPT
                    !.pc = "returned", !.effects.pods = @ + 1,
                    !.res = Err(K8sError("Failed to create deployment"))]
    /\ UNCHANGED <<cache, calls, lost, store, deps, req, err, crud, route, client>>

\* A variant of the failure arm that leaves the service and the deployment
\* alone.
test_failed_keeps_pod(c, deleted) ==
    [c EXCEPT
       !.pc = "returned",
       !.res = Err(ApplicationError("BadRequest",
                                    "Invalid connection credentials"))]

\* The Err(e) arm of match test_connection(..): for a service and a
\* deployment delete_all(..).await?, then Err(bad_request(..)).  delete_all
\* either removes both and returns Ok, or fails and leaves them.
test_failed(c, deleted) ==
    IF c.type = "DatabaseSql"
    THEN IF deleted
         THEN [c EXCEPT
                 !.pc = "returned", !.effects.deletes = @ + 1,
                 !.effects.service = FALSE, !.effects.deployment = FALSE,
                 !.res = Err(ApplicationError("BadRequest",
                                              "Invalid connection credentials"))]
         ELSE [c EXCEPT
                 !.pc = "returned", !.effects.deletes = @ + 1,
                 !.res = Err(K8sError("Failed to delete deployment"))]
    ELSE [c EXCEPT
            !.pc = "returned",
            !.res = Err(ApplicationError("BadRequest",
                                         "Invalid connection credentials"))]

\* match test_connection(&state, &connection_config, &secret_value).await
TestConnection ==
    /\ conn.pc = "test"
    /\ \E ok \in BOOLEAN, deleted \in BOOLEAN :
          LET tested == [conn EXCEPT !.effects.tests = @ + 1]
          IN  conn' = IF ok
                      THEN [tested EXCEPT
                              !.pc = "secret", !.log = Append(@, "test")]
                      ELSE test_failed(tested, deleted)
    /\ UNCHANGED <<cache, calls, lost, store, deps, req, err, crud, route, client>>

\* secrets_client.create
CreateSecret ==
    /\ conn.pc = "secret"
    /\ \E ok \in BOOLEAN, id \in SecretIds :
          conn' = IF ok
                  THEN [conn EXCEPT
                          !.pc = "record", !.effects.secrets = @ + 1,
                          !.secret = id, !.log = Append(@, "secret")]
                  ELSE [conn EXCEPT
                          !.pc = "returned",
                          !.res = Err(InternalError("IOErr",
                                                    "Failed to send request"))]
    /\ UNCHANGED <<cache, calls, lost, store, deps, req, err, crud, route, client>>

\* app_stores.connection.create_one(&conn)
CreateOne ==
    /\ conn.pc = "record"
    /\ \E ok \in BOOLEAN :
          conn' = IF ok
                  THEN [conn EXCEPT
                          !.pc = "returned", !.effects.records = @ + 1,
                          !.record = Connection(conn.secret),
                          !.log = Append(@, "record"),
                          !.res = Ok([key_suffix |-> conn.key_suffix,
                                      group |-> conn.group,
                                      identity |-> conn.identity])]
                  ELSE [conn EXCEPT !.pc = "returned", !.res = Err(StoreError)]
    /\ UNCHANGED <<cache, calls, lost, store, deps, req, err, crud, route, client>>

InitConn == InitUnified

NextConn ==
    \/ CreateConnection
    \/ GetDefinition
    \/ GetThroughput
    \/ Provision
    \/ TestConnection
    \/ CreateSecret
    \/ CreateOne

SpecConn == InitConn /\ [][NextConn]_vars

----------------------------------------------------------------------------
(* The upstream caller: CallerClient::make_request (unified/src/client.rs). *)
(* A URL part is a sequence of atoms; "/" is the separator.                 *)

AuthMethods ==
    {"BearerToken", "ApiKey", "QueryParam", "BasicAuth", "OAuthLegacy",
     "OAuth", "None"}

\* The secret handed to make_request: none, the fields of an OAuthSecret,
\* the fields of an OAuthLegacySecret, or an object with neither.
ClientSecrets == {None, "oauth", "oauth_legacy", "other"}

BaseUrls == {<<"h">>, <<"h", "/">>, <<>>}
ApiPaths == {<<"p">>, <<"/", "p">>}

ends_with(s, c) == s # <<>> /\ s[Len(s)] = c
starts_with(s, c) == s # <<>> /\ s[1] = c

\* let endpoint = if base_url.ends_with('/') || path.starts_with('/') {..}
endpoint_of(base_url, path) ==
    IF ends_with(base_url, "/") \/ starts_with(path, "/")
    THEN base_url \o path
    ELSE base_url \o <<"/">> \o path

\* Url::parse(&endpoint): an endpoint without a host is not a URL.
Url_parse(endpoint) == endpoint # <<>> /\ endpoint[1] = "h"

\* serde_json::from_value::<OAuthSecret>(secret.cloned().unwrap_or_default())
from_value_OAuthSecret(secret) == secret = "oauth"

\* serde_json::from_value::<OAuthLegacySecret>(..)
from_value_OAuthLegacySecret(secret) == secret = "oauth_legacy"

\* A failure of Nonce::generate or of OAuthData::authorization.
SigningError == InternalError("UnknownError", "Failed to sign request")

\* request_builder = match &self.config.auth_method { .. }: the request is
\* built, or the function returns an error before anything is sent.
authorize(auth_method, secret, endpoint, signed) ==
    CASE auth_method = "OAuthLegacy" ->
            IF ~from_value_OAuthLegacySecret(secret)
            THEN Err(new_error("Internal", "InvalidArgument", "missing field",
                               SomeSubtype(<<"o", "a", "u", "t", "h", "_", "s", "e", "c", "r", "e", "t">>)))
            ELSE IF ~Url_parse(endpoint)
            THEN Err(new_error("Internal", "InvalidArgument",
                               "relative URL without a base",
                               SomeSubtype(<<"e", "n", "d", "p", "o", "i", "n", "t">>)))
            ELSE IF ~signed THEN Err(SigningError)
            ELSE Ok("built")
      [] auth_method = "OAuth" ->
            IF ~from_value_OAuthSecret(secret)
            THEN Err(new_error("Internal", "InvalidArgument", "missing field",
                               SomeSubtype(<<"o", "a", "u", "t", "h", "_", "s", "e", "c", "r", "e", "t">>)))
            ELSE Ok("built")
      [] OTHER -> Ok("built")

\* What request_builder.send().await gives: the builder holds an error and
\* nothing is sent, or the transport fails, or the upstream answers.
SendOutcomes ==
    {[kind |-> "transport", status |-> 0, body |-> None]} \cup
    {[kind |-> "response", status |-> s, body |-> b] :
        s \in {200, 302, 404, 500}, b \in {"Not found", "{}"}}

IoError ==
    new_error("Internal", "IOErr", "Failed to send request",
              SomeSubtype(<<"r", "e", "q", "w", "e", "s", "t", ":", ":",
                            "E", "r", "r", "o", "r">>))

\* A variant of send_result that fails on a 4xx or 5xx status, as
\* error_for_status would.
send_result_error_for_status(outcome) ==
    IF outcome.kind # "response" THEN Err(IoError)
    ELSE IF is_client_error(outcome.status) \/ is_server_error(outcome.status)
    THEN Err(from_err_code(outcome.status, "upstream error", NoSubtype))
    ELSE Ok([status |-> outcome.status, body |-> outcome.body])

\* let res = request_builder.send().await.map_err(|e| io_err(..))?; Ok(res)
send_result(outcome) ==
    IF outcome.kind # "response" THEN Err(IoError)
    ELSE Ok([status |-> outcome.status, body |-> outcome.body])

\* make_request up to send(): the endpoint, the headers, the query
\* parameters, the body and the authorization are put on the builder.
MakeRequest ==
    /\ client.pc = "idle"
    /\ \E auth_method \in AuthMethods, secret \in ClientSecrets,
          base_url \in BaseUrls, path \in ApiPaths, signed \in BOOLEAN :
          LET endpoint == endpoint_of(base_url, path)
              built == authorize(auth_method, secret, endpoint, signed)
              called == [IdleClient EXCEPT
                           !.auth_method = auth_method, !.secret = secret,
                           !.base_url = base_url, !.path = path,
                           !.endpoint = endpoint]
          IN  /\ (auth_method # "OAuthLegacy" => signed)
              /\ client' = IF built.ok
                           THEN [called EXCEPT !.pc = "send", !.built = TRUE]
                           ELSE [called EXCEPT !.pc = "returned",
                                               !.res = Err(built.err)]
    /\ UNCHANGED <<cache, calls, lost, store, deps, req, err, crud, route, conn>>

\* request_builder.send().await: a builder whose URL did not parse fails
\* without a request; else one request goes out, and the transport fails or
\* the upstream answers.
Send ==
    /\ client.pc = "send"
    /\ IF ~Url_parse(client.endpoint)
       THEN client' = [client EXCEPT
                         !.pc = "returned",
                         !.res = send_result([kind |-> "builder", status |-> 0,
                                              body |-> None])]
       ELSE \E outcome \in SendOutcomes :
              client' = [client EXCEPT
                           !.pc = "returned", !.sent = @ + 1,
                           !.up = IF outcome.kind = "response"
                                  THEN [status |-> outcome.status,
                                        body |-> outcome.body]
                                  ELSE @,
                           !.res = send_result(outcome)]
    /\ UNCHANGED <<cache, calls, lost, store, deps, req, err, crud, route, conn>>

InitClient == InitUnified

NextClient ==
    \/ MakeRequest
    \/ Send

SpecClient == InitClient /\ [][NextClient]_vars

----------------------------------------------------------------------------
(* Claims about the cache layer, checked under SpecFilter and SpecFn.       *)

Done(c) == calls[c].pc = "done"

IsNotFound(res) ==
    ~res.ok /\ res.err.tier = "Application" /\ res.err.kind = "NotFound"

\* C1: get_or_insert_with_filter returns the cached value without asking the
\* store when the cache holds the key; on a cache miss it asks the store's
\* find_one and, when a record is found, inserts it under the key and returns
\* it; when cache and store both miss it fails with Application/NotFound and
\* the cache still has no entry for the key.
C1_FilterContract ==
    [][\A c \in Calls :
        (calls[c].pc # "done" /\ calls'[c].pc = "done"
            /\ Pattern(calls[c].cid) = "with_filter") =>
        LET k == calls[c].key
            cid == calls[c].cid
        IN  /\ calls[c].pc = "get" =>
                /\ cache[cid][k] # NoEntry
                /\ calls'[c].res = Ok(cache[cid][k].val)
                /\ ~calls'[c].ran
            /\ calls[c].pc \in {"miss", "insert"} =>
                /\ calls'[c].ran
                /\ (store[k] # None /\ calls'[c].out.ok) =>
                      /\ calls[c].pc = "insert"
                      /\ calls'[c].res = Ok(store[k])
                      /\ cache'[cid][k].val = store[k]
                /\ (store[k] = None /\ calls'[c].out.ok) =>
                      /\ IsNotFound(calls'[c].res)
                      /\ cache'[cid][k] = NoEntry
            /\ calls[c].pc = "miss" => cache' = cache
    ]_vars

\* C1 witness: one call found its record in the store, inserted it and
\* returned it, and another failed with NotFound on a key that neither the
\* cache nor the store holds.
C1_Witness ==
    \E c, d \in Calls :
        /\ Done(c) /\ Done(d)
        /\ Pattern(calls[c].cid) = "with_filter"
        /\ Pattern(calls[d].cid) = "with_filter"
        /\ calls[c].ran /\ calls[c].res.ok
        /\ cache[calls[c].cid][calls[c].key].val = calls[c].res.val
        /\ calls[d].ran /\ IsNotFound(calls[d].res)
        /\ cache[calls[d].cid][calls[d].key] = NoEntry

\* c returned before d began, both get_or_insert_with_fn on the same key of
\* the same cache, both returned.
Twice(c, d) ==
    /\ c # d /\ Done(c) /\ Done(d)
    /\ c \in calls[d].after
    /\ calls[c].cid = calls[d].cid /\ calls[c].key = calls[d].key
    /\ Pattern(calls[c].cid) = "with_fn"

\* The producer of a key is deterministic: every run of it gave the same
\* outcome.
Deterministic(cid, k) ==
    \A c, d \in Calls :
        (calls[c].cid = cid /\ calls[d].cid = cid /\ calls[c].key = k
            /\ calls[d].key = k /\ calls[c].ran /\ calls[d].ran)
        => calls[c].out = calls[d].out

BothRan(c, d) == calls[c].ran /\ calls[d].ran

\* C2 as stated: get_or_insert_with_fn called twice for the same key with a
\* deterministic producer returns the same value on both calls and runs the
\* producer at most once within one TTL window (no entry of the key expired).
C2_Original ==
    \A c, d \in Calls :
        (Twice(c, d) /\ Deterministic(calls[c].cid, calls[c].key)
            /\ <<calls[c].cid, calls[c].key, "expired">> \notin lost)
        => (calls[c].res = calls[d].res /\ ~BothRan(c, d))

\* C2 amended: two calls in sequence for the same key with a deterministic
\* producer return the same result; the producer runs at most once within one
\* TTL window when it succeeds and no entry of the key was evicted for
\* capacity; a producer that fails is not cached and runs in both calls.
C2_Amended ==
    \A c, d \in Calls :
        (Twice(c, d) /\ Deterministic(calls[c].cid, calls[c].key)) =>
        /\ calls[c].res = calls[d].res
        /\ (/\ <<calls[c].cid, calls[c].key, "expired">> \notin lost
            /\ <<calls[c].cid, calls[c].key, "evicted">> \notin lost
            /\ calls[c].res.ok) => ~BothRan(c, d)
        /\ ~calls[c].res.ok => BothRan(c, d)

\* C2 witness: the second of two calls in sequence returned the value the
\* first call's producer gave, without running its own producer.
C2_Witness ==
    \E c, d \in Calls :
        /\ Twice(c, d) /\ Deterministic(calls[c].cid, calls[c].key)
        /\ lost = {}
        /\ calls[c].ran /\ ~calls[d].ran
        /\ calls[d].res = Ok(calls[c].out.val)

\* C3: a cache insert happens only after the producer succeeded: a step of a
\* get_or_insert_with_fn call changes the cache only when the call's producer
\* ran and gave a value, and that step returns the value; a call whose
\* producer failed returns the producer's error, and neither that return nor
\* a cancellation changes the cache.
C3_InsertOnlyAfterSuccess ==
    [][\A c \in Calls :
        (calls[c].pc # "idle" /\ calls[c] # calls'[c]
            /\ Pattern(calls[c].cid) = "with_fn") =>
        /\ cache' # cache =>
              /\ calls[c].ran /\ calls[c].out.ok
              /\ calls'[c].pc = "done" /\ calls'[c].res = Ok(calls[c].out.val)
        /\ (calls'[c].pc = "done" /\ ~calls'[c].res.ok) =>
              /\ calls'[c].ran /\ calls'[c].res = calls'[c].out
              /\ cache' = cache
        /\ calls'[c].pc = "cancelled" => cache' = cache
    ]_vars

\* C3 witness: one call returned its producer's error and another was
\* cancelled after its producer had succeeded, and the cache holds nothing
\* under either key.
C3_Witness ==
    \E c, d \in Calls :
        /\ Pattern(calls[c].cid) = "with_fn" /\ Pattern(calls[d].cid) = "with_fn"
        /\ Done(c) /\ calls[c].ran /\ calls[c].res = Err(ProducerError)
        /\ calls[d].pc = "cancelled" /\ calls[d].ran /\ calls[d].out.ok
        /\ cache[calls[c].cid][calls[c].key] = NoEntry
        /\ cache[calls[d].cid][calls[d].key] = NoEntry

----------------------------------------------------------------------------
(* Claims about dependency resolution, checked under SpecDeps.             *)

IsKeyNotFound(res) ==
    ~res.ok /\ res.err.tier = "Internal" /\ res.err.kind = "KeyNotFound"

\* The lookup f of this dispatch missed its cache and then its store (or the
\* secrets client) had no record, and the other two lookups succeeded.
OnlyMissing(f) ==
    /\ deps.pc = "done"
    /\ deps.ext[f] = "missing"
    /\ \A g \in Futs \ {f} : deps.futs[g].res.ok

\* C4: dependency resolution fails whenever one of its three lookups (CMD,
\* secret, CMS) fails, and when the failure is a missing record (cache miss,
\* then store or secrets-client miss) the error returned is
\* Internal/KeyNotFound, for each of the three lookups.
C4_Original ==
    /\ (deps.pc = "done" /\ \E f \in Futs : ~deps.futs[f].res.ok) => ~deps.res.ok
    /\ \A f \in Futs : OnlyMissing(f) => IsKeyNotFound(deps.res)

----------------------------------------------------------------------------
(* Claims about the response of a unified dispatch, checked under           *)
(* SpecUnified.                                                             *)

Finished == req.pc = "done"

Ran(step) == \E i \in DOMAIN req.log : req.log[i] = step

UpstreamError ==
    is_client_error(req.up.status) \/ is_server_error(req.up.status)

\* The upstream answered with a 2xx status and a body that is not JSON.
Unparsed ==
    /\ req.up # NoUp
    /\ is_success(req.up.status)
    /\ ~response_json(req.up.status, req.up.body).ok

HasKey(v, k) == IsObject(v) /\ contains_key(v.f, k)

\* C5: when the upstream status is 4xx or 5xx the dispatch returns a response
\* with the upstream status, the upstream body and the upstream headers, runs
\* no response mapping (no body extraction, no mapToCrudRequest, no
\* mapToCommonModel) and makes no second upstream call, for every upstream
\* body, one that is not JSON included.
C5_Original ==
    (Finished /\ req.up # NoUp /\ UpstreamError) =>
        /\ req.res.ok
        /\ req.res.val.response.status = req.up.status
        /\ req.res.val.response.body = req.up.body
        /\ req.res.val.response.headers = req.up.headers
        /\ ~Ran("transform_response_with_path")
        /\ ~Ran("mapToCrudRequest")
        /\ ~Ran("mapToCommonModel")
        /\ req.http_calls = 1

\* C6 as stated: a 2xx upstream response whose body does not parse as JSON
\* fails the dispatch with the error built from the status and the parse
\* message, Internal/IOErr, and no envelope is returned.
C6_Original ==
    (Finished /\ Unparsed) =>
        /\ ~req.res.ok
        /\ req.res.err =
              from_err_code(req.up.status, DecodeError(req.up.body), NoSubtype)
        /\ req.res.err.tier = "Internal" /\ req.res.err.kind = "IOErr"

\* C6, amended: a 2xx upstream response whose body does not parse as JSON
\* has its parse error dropped; the dispatch goes on with no body (None),
\* never fails with the error built from the status and the parse message,
\* and for Update and Delete returns the envelope with HTTP 200.
C6_Amended ==
    (req.pc \in {"paginate", "map", "build", "done"} /\ Unparsed) =>
        /\ req.body = NoneV
        /\ req.pc # "paginate" => Ran("passthrough_snapshot")
        /\ (Finished /\ ~req.res.ok) =>
              /\ req.res.err #
                    from_err_code(req.up.status, DecodeError(req.up.body), NoSubtype)
              /\ req.res.err.kind # "IOErr"
        /\ (Finished /\ req.action_name \in {"Update", "Delete"}) =>
              /\ req.res.ok
              /\ req.res.val.response.status = 200
              /\ ~HasKey(req.res.val.response.body, UNIFIED_KEY)

\* C6 witness: a Delete whose upstream answered 2xx with an empty body
\* returned the envelope.
C6_Witness ==
    /\ Finished /\ Unparsed
    /\ req.action_name = "Delete"
    /\ req.up.body = NotJson("")
    /\ req.res.ok
    /\ req.res.val.response.status = 200

\* C7: a dispatch whose upstream status is a success status returns HTTP 200
\* with the header x-integrationos-statuscode holding the upstream status; for
\* any other upstream status the response has the upstream status and the
\* gateway adds no such header.
C7_Original ==
    (Finished /\ req.res.ok) =>
        LET response == req.res.val.response
        IN  IF is_success(req.up.status)
            THEN /\ response.status = 200
                 /\ contains_key(response.headers, STATUS_HEADER_KEY)
                 /\ response.headers[STATUS_HEADER_KEY] = ToString(req.up.status)
            ELSE /\ response.status = req.up.status
                 /\ contains_key(response.headers, STATUS_HEADER_KEY) =>
                       /\ contains_key(req.up.headers, STATUS_HEADER_KEY)
                       /\ response.headers[STATUS_HEADER_KEY] =
                              req.up.headers[STATUS_HEADER_KEY]

C9_Original ==
    (Finished /\ req.res.ok /\ is_success(req.up.status)) =>
        LET body == req.res.val.response.body
        IN  /\ req.action_name = "GetMany" =>
                 /\ HasKey(body, UNIFIED_KEY)
                 /\ IsArray(body.f[UNIFIED_KEY])
            /\ req.action_name \in {"Update", "Delete"} =>
                 ~HasKey(body, UNIFIED_KEY)

\* The objects mapToCommonModel produced that the envelope carries.
MappedObjects(unified) ==
    IF IsObject(unified) THEN {unified}
    ELSE IF IsArray(unified)
    THEN {unified.e[i] : i \in {j \in DOMAIN unified.e : IsObject(unified.e[j])}}
    ELSE {}

\* C10: every object mapToCommonModel produced for GetMany, GetOne, Create
\* and Upsert has modifyToken in the envelope, set to the object's id (or ""
\* without an id) when the script output has none, for the elements of an
\* array body and for a single-object body alike.
C10_Original ==
    (Finished /\ req.res.ok /\ Ran("mapToCommonModel")) =>
        \A o \in MappedObjects(req.res.val.response.body.f[UNIFIED_KEY]) :
            /\ contains_key(o.f, MODIFY_TOKEN_KEY)
            /\ req.inp.cms_mapping # "set_token" =>
                  o.f[MODIFY_TOKEN_KEY] =
                      IF contains_key(o.f, ID_KEY) THEN o.f[ID_KEY] ELSE JStr("")

----------------------------------------------------------------------------
(* Claims about the error taxonomy, checked under SpecError.                *)

Built == err.pc = "built"

\* The HTTP status of each Application kind.
ApplicationStatus ==
    [BadRequest |-> 400, Conflict |-> 409, Forbidden |-> 403,
     InternalServerError |-> 500, MethodNotAllowed |-> 405, NotFound |-> 404,
     NotImplemented |-> 501, FailedDependency |-> 424,
     ServiceUnavailable |-> 503, TooManyRequests |-> 429, Unauthorized |-> 401,
     UnprocessableEntity |-> 422]

\* C11: the error-to-status mapping is total over the 13 Internal and 12
\* Application kinds: Internal UniqueFieldViolation gives 409, Timeout 504,
\* ConnectionError 502, KeyNotFound 404, InvalidArgument, SerializeError and
\* DeserializeError 400, every other Internal kind 500, each Application kind
\* its own status; the status depends on the kind only, not on message,
\* subtype or meta.
C11_StatusByKind ==
    /\ Cardinality(InternalKinds) = 13 /\ Cardinality(ApplicationKinds) = 12
    /\ Built =>
        LET e == err.e
        IN  /\ e.tier = "Internal" =>
                 /\ e.kind \in InternalKinds
                 /\ StatusCode_from(e) =
                       CASE e.kind = "UniqueFieldViolation" -> 409
                         [] e.kind = "Timeout" -> 504
                         [] e.kind = "ConnectionError" -> 502
                         [] e.kind = "KeyNotFound" -> 404
                         [] e.kind \in {"InvalidArgument", "SerializeError",
                                        "DeserializeError"} -> 400
                         [] OTHER -> 500
            /\ e.tier = "Application" =>
                 /\ e.kind \in ApplicationKinds
                 /\ StatusCode_from(e) = ApplicationStatus[e.kind]
            /\ StatusCode_from(e) =
                  StatusCode_from(PicaError(e.tier, e.kind, "", NoSubtype, None))

\* C11 witness: a Timeout with a subtype and a meta.
C11_Witness ==
    /\ Built
    /\ err.e.tier = "Internal" /\ err.e.kind = "Timeout"
    /\ err.e.subtype.some /\ err.e.meta # None
    /\ StatusCode_from(err.e) = 504

\* The (tier, kind) pairs of all variants.
AllKinds ==
    ({"Internal"} \X InternalKinds) \cup ({"Application"} \X ApplicationKinds)

CodeOf(tk) == error_code(PicaError(tk[1], tk[2], "", NoSubtype, None))

\* C12: the (code, key) pair of an error is a function of its tier, kind and
\* subtype only; set_meta, any number of times, leaves tier, kind, code, key,
\* message, subtype and HTTP status as they were and only replaces meta;
\* Internal codes are 1000..1012, Application codes 2000..2011, all distinct.
C12_MetaKeepsIdentity ==
    /\ {CodeOf(tk) : tk \in {"Internal"} \X InternalKinds} = 1000..1012
    /\ {CodeOf(tk) : tk \in {"Application"} \X ApplicationKinds} = 2000..2011
    /\ \A a, b \in AllKinds : a # b => CodeOf(a) # CodeOf(b)
    /\ Built =>
        LET e == err.e
            bare == PicaError(e.tier, e.kind, "", e.subtype, None)
        IN  /\ error_code(e) = error_code(bare)
            /\ error_key(e) = error_key(bare)
            /\ err.op = "set_meta" =>
                 /\ e.tier = err.prev.tier /\ e.kind = err.prev.kind
                 /\ error_code(e) = error_code(err.prev)
                 /\ error_key(e) = error_key(err.prev)
                 /\ e.message = err.prev.message
                 /\ e.subtype = err.prev.subtype
                 /\ StatusCode_from(e) = StatusCode_from(err.prev)
                 /\ e.meta \in Metas

\* C12 witness: an error with a subtype had its meta set twice, to two
\* different values.
C12_Witness ==
    /\ Built /\ err.op = "set_meta" /\ err.metas = 2
    /\ err.e.subtype.some
    /\ err.prev.meta # None /\ err.e.meta # err.prev.meta

\* C13: coercing an Internal error to an Application error maps Timeout,
\* ConnectionError, IOErr, ScriptError, ConfigurationError and UnknownError to
\* InternalServerError, UniqueFieldViolation to Conflict, KeyNotFound to
\* NotFound, InvalidArgument, SerializeError and DeserializeError to
\* BadRequest; for Conflict, NotFound and BadRequest the message, subtype and
\* meta of the Internal error are carried over.
C13_Coercion ==
    (Built /\ err.op = "into") =>
        LET from == err.prev
            to == err.e
        IN  /\ to.tier = "Application"
            /\ from.kind \in {"Timeout", "ConnectionError", "IOErr",
                              "ScriptError", "ConfigurationError",
                              "UnknownError"} =>
                  to.kind = "InternalServerError"
            /\ from.kind = "UniqueFieldViolation" => to.kind = "Conflict"
            /\ from.kind = "KeyNotFound" => to.kind = "NotFound"
            /\ from.kind \in {"InvalidArgument", "SerializeError",
                              "DeserializeError"} => to.kind = "BadRequest"
            /\ to.kind \in {"Conflict", "NotFound", "BadRequest"} =>
                  /\ to.message = from.message
                  /\ to.subtype = from.subtype
                  /\ to.meta = from.meta

\* C13 witness: a KeyNotFound with a subtype and a meta became a NotFound.
C13_Witness ==
    /\ Built /\ err.op = "into"
    /\ err.prev.kind = "KeyNotFound"
    /\ err.prev.subtype.some /\ err.prev.meta # None
    /\ err.e.kind = "NotFound"

\* C14: the key of every error is err::<tier>::<kind> or
\* err::<tier>::<kind>::<subtype>, with <tier> internal or application, <kind>
\* the snake_case form of the kind's name and <subtype> the snake_case form
\* of the subtype, the last part present exactly when the error has a
\* subtype; for every kind and every constructor, from_err_code included.
C14_Original ==
    Built =>
        LET e == err.e
            tier == IF e.tier = "Internal"
                    THEN <<"i", "n", "t", "e", "r", "n", "a", "l">>
                    ELSE <<"a", "p", "p", "l", "i", "c", "a", "t", "i", "o", "n">>
            head == <<"e", "r", "r", ":", ":">> \o tier \o <<":", ":">>
                        \o snake_case(KindName[e.kind])
        IN  error_key(e) =
                IF e.subtype.some
                THEN head \o <<":", ":">> \o snake_case(e.subtype.s)
                ELSE head

----------------------------------------------------------------------------
(* Claims about prepare_crud_mapping, checked under SpecCrud.               *)

\* C15: prepare_crud_mapping is idempotent: preparing a prepared payload gives
\* the prepared payload, also when the passthroughForward value or the
\* x-pica-passthrough-headers value itself holds a pair whose key is
\* passthroughForward or x-pica-passthrough-headers.
C15_Original ==
    crud.pc = "twice" => (crud.twice.ok /\ crud.twice.val = crud.once.val)

----------------------------------------------------------------------------
(* Claims about passthrough dispatch, checked under SpecRoute.              *)

\* The dispatch had no explicit CMD id, its connection and the CMDs of the
\* store were read, and more than one supported CMD has the matched route as
\* its path.
Ambiguous ==
    /\ route.id = None
    /\ route.connection # "missing" /\ route.up
    /\ LET supported == SelectSeq(route.cmds, IsSupported)
           matched == match_route(route.path,
                          [i \in 1..Len(supported) |-> supported[i].path])
       IN  /\ matched.some
           /\ Cardinality({i \in 1..Len(supported) :
                              supported[i].path = matched.route}) > 1

\* C16: a passthrough dispatch without an explicit CMD id, for which more than
\* one supported CMD has the matched route as its path, returns
\* Internal/InvalidArgument from dispatch_destination_request and makes no
\* upstream HTTP call.
C16_Original ==
    (route.pc = "returned" /\ Ambiguous) =>
        /\ ~route.res.ok
        /\ route.res.err.tier = "Internal"
        /\ route.res.err.kind = "InvalidArgument"
        /\ route.http_calls = 0

----------------------------------------------------------------------------
(* Claims about the response object path, checked under SpecUnified.        *)

\* The response object path was applied outside production for a GetMany or
\* GetOne whose CMS has a mapping script that compiles (without one the
\* dispatch fails on the script, whatever the selection gave).
PathApplied ==
    /\ Finished /\ Ran("transform_response_with_path")
    /\ ~req.inp.production
    /\ req.action_name \in {"GetMany", "GetOne"}
    /\ req.inp.path # NoPath
    /\ req.inp.cms_mapping \notin {"none", "no_compile"}

\* The nodes the response object path selects.
Selected == select(req.body, req.inp.path)

\* C17: outside production, for a GetMany or GetOne whose CMD has a response
\* object path, the dispatch fails with Application/UnprocessableEntity (422)
\* whenever the selection yields no node, more than one node, or fails.
C17_Original ==
    (PathApplied /\ (~Selected.ok \/ Len(Selected.nodes) # 1)) =>
        /\ ~req.res.ok
        /\ req.res.err.tier = "Application"
        /\ req.res.err.kind = "UnprocessableEntity"
        /\ StatusCode_from(req.res.err) = 422

----------------------------------------------------------------------------
(* Claims about create_connection, checked under SpecConn.                  *)

\* The Connection record was written.
Created == conn.pc = "returned" /\ conn.res.ok

HasNoSpaceOrColon(t) == \A i \in 1..Len(t.s) : t.s[i] \notin {" ", ":"}

\* The generated uuid is fresh: neither the identity nor the group of the
\* payload is the text of the uuid.
Fresh ==
    /\ conn.payload.identity.some =>
          unwrap_or_else(conn.payload.identity, conn.uuid) # conn.uuid
    /\ conn.payload.group.some =>
          unwrap_or_else(conn.payload.group, conn.uuid) # conn.uuid

\* C19 as stated: the suffix of the key of a created connection is the bare
\* uuid when the payload provides no identity, and otherwise uuid|identity
\* with every space and colon of the identity replaced by '-'; in both cases
\* the suffix holds no space and no colon.
C19_Original ==
    (Created /\ Fresh) =>
        /\ conn.res.val.key_suffix =
              IF ~conn.payload.identity.some THEN conn.uuid
              ELSE Text(conn.uuid.s \o <<"|">>
                            \o replace(unwrap_or_else(conn.payload.identity, conn.uuid)).s,
                        conn.payload.identity.pad)
        /\ HasNoSpaceOrColon(conn.res.val.key_suffix)

\* The identity in effect: the payload's identity, else its group, else the
\* generated uuid.
EffectiveIdentity ==
    unwrap_or_else(conn.payload.identity,
                   unwrap_or_else(conn.payload.group, conn.uuid))

\* C19 as amended: the suffix is the bare uuid when the identity in effect
\* (the payload's identity, else its group, else the uuid) is the uuid, as it
\* is when the payload provides neither; otherwise it is uuid|x, x being the
\* identity in effect with every space and colon replaced by '-'; in every
\* case the suffix holds no space and no colon.
C19_Amended ==
    Created =>
        /\ (~conn.payload.identity.some /\ ~conn.payload.group.some) =>
              conn.res.val.key_suffix = conn.uuid
        /\ conn.res.val.key_suffix =
              IF EffectiveIdentity = conn.uuid THEN conn.uuid
              ELSE Text(conn.uuid.s \o <<"|">> \o replace(EffectiveIdentity).s,
                        EffectiveIdentity.pad)
        /\ HasNoSpaceOrColon(conn.res.val.key_suffix)

\* C19 witness: a connection was created from a payload without identity
\* whose group holds a colon.
C19_Witness ==
    /\ Created
    /\ ~conn.payload.identity.some /\ conn.payload.group.some
    /\ ~HasNoSpaceOrColon(conn.payload.group)
    /\ conn.res.val.key_suffix # conn.uuid

\* C20: create_connection with an identity of more than 128 characters fails
\* with Application/BadRequest and has no effect: no definition lookup, no pod
\* provisioning, no test call, no secret, no Connection record.
C20_LongIdentityRejected ==
    (conn.pc # "idle" /\ conn.payload.identity.some
        /\ chars_count(conn.payload.identity) > IDENTITY_MAX) =>
        /\ conn.pc = "returned"
        /\ ~conn.res.ok
        /\ conn.res.err.tier = "Application"
        /\ conn.res.err.kind = "BadRequest"
        /\ StatusCode_from(conn.res.err) = 400
        /\ conn.effects = NoEffects

\* C20 witness: an identity of 129 characters was rejected.
C20_Witness ==
    /\ conn.pc = "returned"
    /\ conn.payload.identity.some
    /\ chars_count(conn.payload.identity) = IDENTITY_MAX + 1
    /\ ~conn.res.ok /\ conn.res.err.kind = "BadRequest"

----------------------------------------------------------------------------
(* Claims about the steps of create_connection, checked under SpecConn.     *)

BadCredentials ==
    Err(ApplicationError("BadRequest", "Invalid connection credentials"))

\* A call for a DatabaseSql definition whose service and deployment were
\* provisioned and whose test connection then failed has returned.
PodTestFailed ==
    /\ conn.pc = "returned"
    /\ conn.type = "DatabaseSql"
    /\ conn.log = <<"provision">>
    /\ conn.effects.pods = 1
    /\ conn.effects.tests = 1

\* C21, as stated: when create_connection has provisioned a service and a
\* deployment for a DatabaseSql definition and the test connection then
\* fails, the service and the deployment are deleted before the call
\* returns, the call returns an error, and neither a secret nor a Connection
\* record is created.
C21_Original ==
    PodTestFailed =>
        /\ ~conn.effects.service /\ ~conn.effects.deployment
        /\ ~conn.res.ok
        /\ conn.effects.secrets = 0
        /\ ~conn.record.written

\* C21, amended: when create_connection has provisioned a service and a
\* deployment for a DatabaseSql definition and the test connection then
\* fails, delete_all is called once before the call returns, the call
\* returns an error, and neither a secret nor a Connection record is
\* created; the error is Application/BadRequest exactly when delete_all
\* succeeded, and then the service and the deployment are gone; when
\* delete_all fails the call returns that failure.
C21_Amended ==
    PodTestFailed =>
        /\ conn.effects.deletes = 1
        /\ ~conn.res.ok
        /\ conn.effects.secrets = 0
        /\ conn.effects.records = 0
        /\ ~conn.record.written
        /\ (conn.res = BadCredentials) =>
              (~conn.effects.service /\ ~conn.effects.deployment)
        /\ (conn.res # BadCredentials) =>
              conn.res = Err(K8sError("Failed to delete deployment"))

\* C21 witness: the test connection of a provisioned SQL connection failed,
\* the pod was deleted and the credentials were reported invalid.
C21_Witness ==
    /\ PodTestFailed
    /\ conn.effects.deletes = 1
    /\ ~conn.effects.service /\ ~conn.effects.deployment
    /\ conn.res = BadCredentials

\* C30: create_connection writes the Connection record only after the test
\* connection succeeded and the secret was created, in the order provision,
\* test, create secret, write record; the record's secrets_service_id is the
\* id of the secret created in the same call; and a call that failed at any
\* step has written no record.
C30_RecordLast ==
    /\ conn.record.written =>
          /\ conn.log = <<"provision", "test", "secret", "record">>
          /\ conn.effects.tests = 1
          /\ conn.effects.secrets = 1
          /\ conn.effects.records = 1
          /\ conn.secret \in SecretIds
          /\ conn.record.secrets_service_id = conn.secret
          /\ conn.res.ok
    /\ (conn.pc = "returned" /\ ~conn.res.ok) =>
          (~conn.record.written /\ conn.effects.records = 0)
    /\ conn.effects.records > 0 => conn.record.written

\* C30 witness: a call has written its record, with the id of its secret.
C30_Witness ==
    /\ conn.pc = "returned"
    /\ conn.res.ok
    /\ conn.record.written
    /\ conn.record.secrets_service_id = "s2"
    /\ conn.secret = "s2"

----------------------------------------------------------------------------
(* Claims about concurrent misses, checked under SpecFn.                    *)

\* Two get_or_insert_with_fn calls for the same key that overlapped: neither
\* had returned when the other began, both have completed, and no other call
\* was made for the key.
Interleaved(c, d) ==
    /\ c # d /\ Done(c) /\ Done(d)
    /\ c \notin calls[d].after /\ d \notin calls[c].after
    /\ calls[c].cid = calls[d].cid /\ calls[c].key = calls[d].key
    /\ Pattern(calls[c].cid) = "with_fn"
    /\ \A e \in Calls \ {c, d} : calls[e].key # calls[c].key

\* The entry of the key of call c left its cache by expiry or eviction.
LostEntry(c) ==
    \E how \in {"expired", "evicted"} :
        <<calls[c].cid, calls[c].key, how>> \in lost

\* C25: the cache does not coordinate concurrent misses. Two interleaved
\* get_or_insert_with_fn calls for the same absent key may both run the
\* producer; each call that ran its producer returns what its own producer
\* returned, and after both completed the entry of the key, if the cache
\* holds one, is a value that one of the two producers returned with
\* success; it holds one when a producer succeeded and no entry of the key
\* expired or was evicted.
C25_Stampede ==
    \A c, d \in Calls :
        Interleaved(c, d) =>
        LET held == cache_get(cache[calls[c].cid], calls[c].key)
            Gave(e, v) == calls[e].ran /\ calls[e].out = Ok(v)
        IN  /\ \A e \in {c, d} : calls[e].ran => calls[e].res = calls[e].out
            /\ held # None => (Gave(c, held) \/ Gave(d, held))
            /\ ((\E e \in {c, d} : calls[e].ran /\ calls[e].out.ok)
                    /\ ~LostEntry(c)) => held # None

\* C25 witness: two interleaved calls both ran the producer, which gave them
\* different values; each returned its own and the cache holds one of them.
C25_Witness ==
    \E c, d \in Calls :
        /\ Interleaved(c, d) /\ BothRan(c, d)
        /\ calls[c].res = Ok("v1") /\ calls[d].res = Ok("v2")
        /\ cache_get(cache[calls[c].cid], calls[c].key) = "v1"
        /\ lost = {}

----------------------------------------------------------------------------
(* Claims about the join of get_dependencies, checked under SpecDeps.       *)

\* The lookup f of the dispatch asked its store or client and got a value.
Fetched(f) ==
    deps.futs[f].ran /\ deps.futs[f].out.ok /\ deps.futs[f].out.val # None

\* No entry of the key of lookup f has left its cache.
KeptEntry(f) ==
    \A how \in {"expired", "evicted"} :
        <<FutCache(f), deps.futs[f].key, how>> \notin lost

\* C26: get_dependencies returns only after its three lookups have all
\* finished, also when one of them failed; a lookup that got a value has
\* inserted it into its cache and returned it although the resolution
\* fails; and the error of a failed resolution is the CMD lookup's, else the
\* secret lookup's, else the CMS lookup's.
C26_JoinAll ==
    deps.pc = "done" =>
        LET c == deps.futs["config_fut"].res
            s == deps.futs["secret_fut"].res
            m == deps.futs["schema_fut"].res
        IN  /\ \A f \in Futs : deps.futs[f].pc = "done"
            /\ \A f \in Futs :
                  Fetched(f) =>
                  /\ deps.futs[f].res = Ok(deps.futs[f].out.val)
                  /\ KeptEntry(f) =>
                        cache_get(cache[FutCache(f)], deps.futs[f].key)
                            = deps.futs[f].out.val
            /\ deps.res.ok = (c.ok /\ s.ok /\ m.ok)
            /\ ~c.ok => deps.res = Err(c.err)
            /\ (c.ok /\ ~s.ok) => deps.res = Err(s.err)
            /\ (c.ok /\ s.ok /\ ~m.ok) => deps.res = Err(m.err)

\* C26 witness: the CMD and the CMS lookups failed with different errors and
\* the secret lookup fetched a secret; the resolution returned the CMD
\* lookup's error, and the secret is in the secret cache.
C26_Witness ==
    /\ deps.pc = "done"
    /\ ~deps.futs["config_fut"].res.ok
    /\ ~deps.futs["schema_fut"].res.ok
    /\ deps.futs["config_fut"].res # deps.futs["schema_fut"].res
    /\ Fetched("secret_fut")
    /\ lost = {}
    /\ cache_get(cache["secrets_cache"], deps.futs["secret_fut"].key) = "v1"
    /\ deps.res = deps.futs["config_fut"].res

----------------------------------------------------------------------------
(* Claims about the element mappings of an array body, under SpecUnified.   *)

\* The common-model mapping of a GetMany dispatch has run on an extracted
\* body that is an array, with a mapToCommonModel script that compiles.
ArrayMapped ==
    /\ req.action_name = "GetMany"
    /\ req.pc \in {"build", "done"}
    /\ Ran("transform_response_with_path")
    /\ req.inp.cms_mapping \notin {"unread", "none", "no_compile"}
    /\ req.extracted.ok
    /\ req.extracted.val # NoneV
    /\ IsArray(req.extracted.val)

\* C27: for a GetMany response whose extracted body is an array of n
\* elements, the unified array has n elements and its i-th element is what
\* the mapping of the i-th input element gave, in whatever order the
\* concurrent element mappings completed; when the mapping of an element
\* fails the dispatch fails with such an element's error and returns no
\* array.
C27_InputOrder ==
    ArrayMapped =>
        LET arr == req.extracted.val.e
            out == [i \in DOMAIN arr |->
                        map_element(req.inp.cms_mapping, arr[i])]
        IN  IF \A i \in DOMAIN arr : out[i].ok
            THEN /\ IsArray(req.mapped)
                 /\ Len(req.mapped.e) = Len(arr)
                 /\ \A i \in DOMAIN arr : req.mapped.e[i] = out[i].val
                 /\ Finished =>
                       /\ req.res.ok
                       /\ req.res.val.response.body.f[UNIFIED_KEY] = req.mapped
            ELSE /\ Finished
                 /\ ~req.res.ok
                 /\ req.mapped = NoneV
                 /\ \E i \in DOMAIN arr :
                       ~out[i].ok /\ req.res = Err(out[i].err)

\* C27 witness: the mapping of the second element completed before that of
\* the first, and the unified array holds the two mapped elements, which
\* differ, in the order of the input.
C27_Witness ==
    /\ ArrayMapped /\ Finished /\ req.res.ok
    /\ req.inp.order = <<2, 1>>
    /\ req.extracted.val = Arr
    /\ req.res.val.response.body.f[UNIFIED_KEY] =
          JArr(<<map_element(req.inp.cms_mapping, Obj1).val,
                 map_element(req.inp.cms_mapping, Obj2).val>>)
    /\ map_element(req.inp.cms_mapping, Obj1).val
          # map_element(req.inp.cms_mapping, Obj2).val

----------------------------------------------------------------------------
(* Claims about make_request, checked under SpecClient.                     *)

Answered == client.up.status # 0

\* C22, as stated: make_request issues exactly one upstream HTTP request and
\* returns Ok with the raw response for every upstream status, 4xx and 5xx
\* included; it never retries and never turns a status into an error; only a
\* transport failure makes it fail, with Internal/IO.
C22_Original ==
    client.pc = "returned" =>
        /\ client.sent = 1
        /\ Answered => client.res = Ok(client.up)
        /\ ~client.res.ok =>
              /\ ~Answered
              /\ client.res.err.tier = "Internal"
              /\ client.res.err.kind = "IOErr"

\* C22, amended: make_request issues at most one upstream HTTP request and
\* never retries; when the upstream answers it returns Ok with the raw
\* response for every status, 4xx and 5xx included, and never turns a status
\* into an error. It fails without a request when the authorization cannot
\* be built: an OAuth or OAuthLegacy secret that does not deserialize and an
\* OAuthLegacy endpoint that is not a URL give Internal/InvalidArgument, and
\* a failure to sign gives that failure; every failure of send gives
\* Internal/IO.
C22_Amended ==
    client.pc = "returned" =>
        /\ client.sent <= 1
        /\ Answered => (client.sent = 1 /\ client.res = Ok(client.up))
        /\ client.res.ok => Answered
        /\ ~client.res.ok =>
              /\ ~Answered
              /\ client.res.err.tier = "Internal"
              /\ client.built => client.res.err.kind = "IOErr"
              /\ ~client.built =>
                    /\ client.sent = 0
                    /\ client.auth_method \in {"OAuth", "OAuthLegacy"}
                    /\ \/ client.res.err.kind = "InvalidArgument"
                       \/ /\ client.res.err = SigningError
                          /\ client.auth_method = "OAuthLegacy"

\* C22 witness: the upstream answered 404 with the body Not found, and
\* make_request returned Ok with that status and body after one request.
C22_Witness ==
    /\ client.pc = "returned"
    /\ client.sent = 1
    /\ client.res = Ok([status |-> 404, body |-> "Not found"])

----------------------------------------------------------------------------
(* Claims about the order of the steps of a unified dispatch and about the  *)
(* pagination of its envelope, checked under SpecUnified.                   *)

\* The place of a step in an enumeration of the steps.
Position(order, step) == CHOOSE k \in DOMAIN order : order[k] = step

\* The steps a dispatch has run so far ran in the order of the enumeration.
StepOrder(order) ==
    \A i, j \in DOMAIN req.log :
        i < j => Position(order, req.log[i]) < Position(order, req.log[j])

RequestOrder ==
    <<"insert_action_id", "mapFromCommonModel", "prepare_crud_mapping",
      "mapFromCrudRequest", "extend_secret", "insert_body_into_path_object",
      "execute_model_definition", "response.json">>

\* The order as enumerated: extraction, snapshot, pagination, mapping.
EnumeratedOrder ==
    RequestOrder \o
    <<"transform_response_with_path", "passthrough_snapshot",
      "mapToCrudRequest", "mapToCommonModel", "build_unified_response">>

\* The order of lines 432-525: snapshot, pagination, extraction, mapping.
CodeOrder ==
    RequestOrder \o
    <<"passthrough_snapshot", "mapToCrudRequest",
      "transform_response_with_path", "mapToCommonModel",
      "build_unified_response">>

\* C23 as stated: the steps of a unified dispatch run in the enumerated
\* order, the extraction of the response body at the response object path
\* before the passthrough snapshot and the pagination, and the snapshot is a
\* copy of the extracted body.
C23_Original ==
    /\ StepOrder(EnumeratedOrder)
    /\ (req.passthrough # NoneV /\ req.extracted.ok)
          => req.passthrough = req.extracted.val

\* C23, amended: the steps of a unified dispatch run in this order:
\* action-id injection into the secret, CMS mapFromCommonModel on the body,
\* prepare_crud_mapping, CMD mapFromCrudRequest, extension of the secret with
\* the path params, body re-wrap, the HTTP call, the parse of the response
\* body, the passthrough snapshot of the parsed body, pagination (cursor
\* extraction from the parsed body, then mapToCrudRequest), extraction of the
\* body at the response object path, common-model mapping, envelope
\* assembly; the snapshot is a copy of the parsed body, not of the extracted
\* one.
C23_Amended ==
    /\ StepOrder(CodeOrder)
    /\ req.passthrough # NoneV => req.passthrough = req.body

\* C23 witness: a dispatch that ran every step, whose snapshot differs from
\* the body it extracted.
C23_Witness ==
    /\ Finished /\ req.res.ok
    /\ req.log = CodeOrder
    /\ req.passthrough = Wrapped
    /\ req.extracted.ok /\ req.extracted.val = Arr

\* The pagination of the envelope of a finished dispatch, when it has one.
Envelope == req.res.val.response.body

Paged ==
    /\ Finished /\ req.res.ok /\ Ran("build_unified_response")
    /\ HasKey(Envelope, PAGINATION_KEY)

\* C24: the envelope of a unified dispatch has the key pagination only when
\* the action is GetMany and mapToCrudRequest returned a pagination object;
\* then pagination.pageSize is the number of elements of the unified array,
\* and pagination.limit is the limit query param of the request when that
\* parses as a u32, and is not added otherwise.
C24_Original ==
    Paged =>
        LET pagination == Envelope.f[PAGINATION_KEY]
        IN  /\ req.action_name = "GetMany"
            /\ Ran("mapToCrudRequest")
            /\ req.pagination # NoneV /\ IsObject(req.pagination)
            /\ (HasKey(Envelope, UNIFIED_KEY) /\ IsArray(Envelope.f[UNIFIED_KEY]))
                  => pagination.f[PAGE_SIZE_KEY] =
                        JNum(Len(Envelope.f[UNIFIED_KEY].e))
            /\ IF parse_u32(req.inp.query_limit).ok
               THEN /\ HasKey(pagination, LIMIT_KEY)
                    /\ pagination.f[LIMIT_KEY] =
                          JNum(parse_u32(req.inp.query_limit).n)
               ELSE HasKey(pagination, LIMIT_KEY)
                      => HasKey(req.pagination, LIMIT_KEY)

----------------------------------------------------------------------------
(* Claims about the caches of a dispatch and about unsupported CMDs,        *)
(* checked under SpecRoute.                                                 *)

\* A passthrough dispatch resolved a CMD whose supported flag is false.
Unsupported ==
    /\ route.kind = "passthrough"
    /\ route.config # NoCmd
    /\ ~route.config.supported

\* C29: dispatch_destination_request makes no call to the secrets client and
\* no upstream HTTP request for a resolved CMD whose supported flag is false:
\* it has returned Application/NotFound, also when the CMD came from the
\* CMD-by-id cache.
C29_Unsupported ==
    Unsupported =>
        /\ route.pc = "returned"
        /\ ~route.res.ok
        /\ route.res.err.tier = "Application"
        /\ route.res.err.kind = "NotFound"
        /\ route.secrets_calls = 0
        /\ route.http_calls = 0

\* C29 witness: the unsupported CMD was resolved by id from the CMD-by-id
\* cache, which an earlier dispatch had filled.
C29_Witness ==
    /\ Unsupported
    /\ route.id # None /\ route.hit
    /\ route.round = 2
    /\ route.pc = "returned"

\* The CMDs of the store.
Stored == {route.cmds[i] : i \in DOMAIN route.cmds}

\* C28: a dispatch, unified or passthrough, leaves the cache entries as they
\* were filled: the secret cached for the connection is the one the secrets
\* client returned, without the injected id or the path params, and every
\* cached CMD is the stored CMD, as is the resolved CMD the dispatch was
\* handed; the templated and the rendered CMD are copies.
C28_CacheFrame ==
    /\ \A id \in DOMAIN route.cmd_cache :
          /\ route.cmd_cache[id] \in Stored
          /\ route.cmd_cache[id].id = id
    /\ route.definitions_cache.some
          => route.definitions_cache.val = route.cmds[1]
    /\ route.secrets_cache.some
          => route.secrets_cache.val = SecretsGet["found"].val
    /\ route.config # NoCmd => route.config \in Stored
    /\ route.secret # None => route.secret = SecretsGet["found"].val

\* C28 witness: a unified dispatch, after a passthrough dispatch by id, sent
\* a request rendered from a secret with the injected id, while the three
\* caches hold their entries.
C28_Witness ==
    /\ route.kind = "unified" /\ route.pc = "returned" /\ route.res.ok
    /\ route.round = 2
    /\ HasKey(route.value, ID_KEY)
    /\ route.rendered.path # route.config.path
    /\ route.secrets_cache.some /\ route.definitions_cache.some
    /\ "c1" \in DOMAIN route.cmd_cache

====
